---- MODULE Spec2Model ----
(***************************************************************************)
(* git-review: the review-session engine.  One operating-system process    *)
(* runs one command; processes share the SQLite store (session, commits,   *)
(* reviewers, comments) and the git working copies.  Every store statement *)
(* and every git call of a command is one step of the process running it.  *)
(***************************************************************************)
EXTENDS Integers, Sequences, FiniteSets, TLC

(* ------------------------------ bounds -------------------------------- *)
\* number of identifiers the uuid generator hands out in one behaviour
MaxIds == 4
\* identifiers are two characters; the second one counts modulo IdBase
IdBase == 2
\* identifiers handed out in a behaviour with several reviewers
AddIds == 2
\* identifiers handed out in a behaviour with resolve and unresolve
ResolveIds == 3
\* identifiers handed out in a behaviour with two commands in flight
RaceIds == 3
\* comments in a table handed to filterComments
FilterIds == 2
\* identifiers handed out in a behaviour with finish and abort
FinIds == 2

(* --------------------------- nullable values --------------------------- *)
\* sql NULL / null.String{} / uuid.NullUUID{}: the empty set; a value v: {v}
Null == {}
Some(v) == {v}
Val(s) == CHOOSE v \in s : TRUE

(* ------------------------------ strings -------------------------------- *)
\* a string is a sequence of one-character strings; "" is << >>
Digits == <<"0", "1", "2", "3", "4", "5", "6", "7", "8", "9">>
DigitSet == {Digits[i] : i \in 1..Len(Digits)}
DigitVal(ch) == (CHOOSE i \in 1..Len(Digits) : Digits[i] = ch) - 1

\* strings.IndexByte(raw, ch): 0-based index of the first ch, -1 if none
IndexByte(raw, ch) ==
    IF \E i \in 1..Len(raw) : raw[i] = ch
    THEN (CHOOSE i \in 1..Len(raw) : raw[i] = ch /\ \A j \in 1..(i-1) : raw[j] # ch) - 1
    ELSE -1

RECURSIVE DecVal(_)
DecVal(s) == IF s = << >> THEN 0 ELSE 10 * DecVal(SubSeq(s, 1, Len(s) - 1)) + DigitVal(s[Len(s)])

\* strconv.ParseInt(s, 10, 64): an optional sign, then one or more decimal digits
ParseIntOk(s) ==
    LET body == IF s # << >> /\ Head(s) \in {"+", "-"} THEN Tail(s) ELSE s
    IN  body # << >> /\ \A i \in 1..Len(body) : body[i] \in DigitSet
ParseIntVal(s) ==
    IF Head(s) = "-" THEN 0 - DecVal(Tail(s))
    ELSE IF Head(s) = "+" THEN DecVal(Tail(s))
    ELSE DecVal(s)

\* SQLite `str LIKE pat`: "%" matches any run of characters, "_" one character
RECURSIVE Like(_, _)
Like(pat, str) ==
    IF pat = << >> THEN str = << >>
    ELSE IF Head(pat) = "%"
         THEN Like(Tail(pat), str) \/ (str # << >> /\ Like(pat, Tail(str)))
         ELSE /\ str # << >>
              /\ (Head(pat) = "_" \/ Head(pat) = Head(str))
              /\ Like(Tail(pat), Tail(str))

\* the WHERE clause `col LIKE ?||'%'` of the two prefix queries
LikePrefix(arg, str) == Like(arg \o <<"%">>, str)

\* arg is, as text, a prefix of str
IsPrefix(arg, str) == Len(arg) <= Len(str) /\ SubSeq(str, 1, Len(arg)) = arg

\* Go's a < b on strings of digits: byte-wise, a proper prefix sorts first
RECURSIVE StrLess(_, _)
StrLess(a, b) ==
    IF b = << >> THEN FALSE
    ELSE IF a = << >> THEN TRUE
    ELSE IF Head(a) = Head(b) THEN StrLess(Tail(a), Tail(b))
    ELSE DigitVal(Head(a)) < DigitVal(Head(b))

\* sort.Slice by identifier: the strings of S in ascending order
RECURSIVE SortIds(_)
SortIds(S) ==
    IF S = {} THEN << >>
    ELSE LET lo == CHOOSE a \in S : \A b \in S \ {a} : StrLess(a, b)
         IN  <<lo>> \o SortIds(S \ {lo})

(* ------------------------- the git repository -------------------------- *)
\* branch under review, and the commit where it left the main branch
BranchRef == <<"feat">>
MainSha == <<"c", "c">>
\* the commits of the branch after MainSha, oldest first (rev-list --reverse)
History == << <<"a", "a">>, <<"a", "b">>, <<"b", "a">> >>
HistorySet == {History[i] : i \in 1..Len(History)}
HeadSha == History[Len(History)]

\* git rev-parse <ref>: Null when the ref does not resolve
RevParse(ref) ==
    IF ref = BranchRef THEN Some(HeadSha)
    ELSE IF ref = <<"main">> \/ ref = MainSha THEN Some(MainSha)
    ELSE IF ref \in HistorySet THEN Some(ref)
    ELSE Null

HistoryPos(sha) == CHOOSE i \in 1..Len(History) : History[i] = sha

\* git rev-list --reverse base..HEAD with HEAD at the tip of the branch
RevList(base) ==
    IF base = MainSha THEN History
    ELSE SubSeq(History, HistoryPos(base) + 1, Len(History))


(* ------------------------------- state --------------------------------- *)
VARIABLES
    session,    \* table session: set of rows [base_ref, branch]
    commits,    \* table commits: set of rows [sha, position]
    reviewers,  \* table reviewers: name -> current_sha (nullable)
    comments,   \* table comments: id -> row
    wt,         \* working copies: name -> [head, index, files]; "" is the main one
    nextId,     \* how many identifiers uuid.NewV7 has handed out
    pc,         \* per process: the step it is about to take
    loc,        \* per process: the local variables of the running command
    out,        \* what the command that ended last reported
    db,         \* the review directory with the store file review.db exists
    notes       \* git notes: commit -> the blocks appended to its note

vars == <<session, commits, reviewers, comments, wt, nextId, pc, loc, out, db, notes>>
store == <<session, commits, reviewers, comments>>

\* command processes that may be in flight at the same time
Procs == {1, 2}
NoLoc == [cmd |-> "none"]
NoOut == [cmd |-> "none", res |-> "none"]

\* a table without rows
EmptyFn == [x \in {} |-> Null]

(* ------------------------------ the store ------------------------------ *)
\* SELECT COUNT(*) FROM session
SessionExists == Cardinality(session)
\* SELECT ... FROM session LIMIT 1
GetSession == CHOOSE s \in session : TRUE

\* SELECT ... FROM commits ORDER BY position
RECURSIVE OrderByPosition(_)
OrderByPosition(rows) ==
    IF rows = {} THEN << >>
    ELSE LET lo == CHOOSE r \in rows : \A r2 \in rows : r.position <= r2.position
         IN  <<lo>> \o OrderByPosition(rows \ {lo})
ListCommits == OrderByPosition(commits)

\* SELECT ... FROM commits WHERE position = ?
GetCommitByPosition(pos) == {r \in commits : r.position = pos}

\* SELECT ... FROM commits WHERE sha LIKE ?||'%'  (the rows it can return)
FindCommitBySHAPrefix(arg) == {r \in commits : LikePrefix(arg, r.sha)}

\* INSERT INTO commits: sha is the primary key, position is UNIQUE
InsertCommitOk(tbl, row) == \A r \in tbl : r.sha # row.sha /\ r.position # row.position

\* the rows of a fresh commit list: position i for the i-th sha, from 0
\* commit rows numbered from 1
CommitRowsFromOne(shas) == {[sha |-> shas[i], position |-> i] : i \in 1..Len(shas)}

CommitRows(shas) == {[sha |-> shas[i], position |-> i - 1] : i \in 1..Len(shas)}

\* findCommitPosition: the position of the row with this sha, -1 if none
findCommitPosition(list, sha) ==
    IF \E i \in 1..Len(list) : list[i].sha = sha
    THEN (CHOOSE r \in {list[i] : i \in 1..Len(list)} : r.sha = sha).position
    ELSE -1

\* uuid.NewV7: the k-th identifier; later identifiers sort after earlier ones
IdOf(k) == <<Digits[(k \div IdBase) + 1], Digits[(k % IdBase) + 1]>>

\* SELECT ... FROM comments WHERE id LIKE ?||'%'  (the rows it can return)
FindCommentByPrefix(tbl, arg) == {id \in DOMAIN tbl : LikePrefix(arg, id)}

\* an insert that checks no parent_id foreign key, as with foreign_keys off
InsertWithoutParentKey(tbl, id, row) ==
    /\ id \notin DOMAIN tbl
    /\ \E r \in commits : r.sha = row.commit

\* INSERT INTO comments: primary key, parent_id and "commit" foreign keys
InsertCommentOk(tbl, id, row) ==
    /\ id \notin DOMAIN tbl
    /\ row.parent # Null => Val(row.parent) \in DOMAIN tbl
    /\ \E r \in commits : r.sha = row.commit

InsertComment(tbl, id, row) ==
    [i \in DOMAIN tbl \cup {id} |-> IF i = id THEN row ELSE tbl[i]]

\* a re-parenting that detaches the children instead: parent_id = NULL
ReparentToNull(tbl, newParent, oldParent) ==
    [i \in DOMAIN tbl |->
        IF tbl[i].parent = oldParent THEN [tbl[i] EXCEPT !.parent = Null] ELSE tbl[i]]

\* a re-parenting whose WHERE clause takes every reply
ReparentEveryReply(tbl, newParent, oldParent) ==
    [i \in DOMAIN tbl |->
        IF tbl[i].parent # Null THEN [tbl[i] EXCEPT !.parent = newParent] ELSE tbl[i]]

\* UPDATE comments SET parent_id = ? WHERE parent_id = ?
ReparentChildren(tbl, newParent, oldParent) ==
    [i \in DOMAIN tbl |->
        IF tbl[i].parent = oldParent THEN [tbl[i] EXCEPT !.parent = newParent] ELSE tbl[i]]

\* a delete that takes the named rows only, as without ON DELETE CASCADE
DeleteRowsOnly(tbl, ids) == [i \in DOMAIN tbl \ ids |-> tbl[i]]

\* DELETE FROM comments WHERE id IN ids, with parent_id ... ON DELETE CASCADE
RECURSIVE CascadeDelete(_, _)
CascadeDelete(tbl, ids) ==
    IF ids \cap DOMAIN tbl = {} THEN tbl
    ELSE LET rest == [i \in DOMAIN tbl \ ids |-> tbl[i]]
             refs == {i \in DOMAIN rest : rest[i].parent # Null /\ Val(rest[i].parent) \in ids}
         IN  CascadeDelete(rest, refs)

\* DELETE FROM comments WHERE id = ?
DeleteComment(tbl, id) == CascadeDelete(tbl, {id})

\* an update that records the time but not the name
ResolveAtOnly(tbl, at, by, id) ==
    [i \in DOMAIN tbl |->
        IF i = id /\ tbl[i].parent = Null THEN [tbl[i] EXCEPT !.resolvedAt = at] ELSE tbl[i]]

\* UPDATE comments SET resolved_at = ?, resolved_by = ? WHERE id = ? AND parent_id IS NULL
ResolveComment(tbl, at, by, id) ==
    [i \in DOMAIN tbl |->
        IF i = id /\ tbl[i].parent = Null
        THEN [tbl[i] EXCEPT !.resolvedAt = at, !.resolvedBy = by] ELSE tbl[i]]

\* an update that clears the time but keeps the name
UnresolveAtOnly(tbl, id) ==
    [i \in DOMAIN tbl |-> IF i = id THEN [tbl[i] EXCEPT !.resolvedAt = Null] ELSE tbl[i]]

\* UPDATE comments SET resolved_at = NULL, resolved_by = NULL WHERE id = ?
UnresolveComment(tbl, id) ==
    [i \in DOMAIN tbl |->
        IF i = id THEN [tbl[i] EXCEPT !.resolvedAt = Null, !.resolvedBy = Null] ELSE tbl[i]]

\* an update of the cursor without its WHERE clause
UpdateEveryReviewer(tbl, sha, name) == [n \in DOMAIN tbl |-> sha]

\* UPDATE reviewers SET current_sha = ? WHERE name = ?
UpdateReviewerCurrent(tbl, sha, name) ==
    [n \in DOMAIN tbl |-> IF n = name THEN sha ELSE tbl[n]]

\* an insert that rewrites the whole table with the new row's cursor
InsertReviewerReset(tbl, name, sha) == [n \in DOMAIN tbl \cup {name} |-> sha]

\* INSERT INTO reviewers (name, current_sha): name is the primary key
InsertReviewer(tbl, name, sha) ==
    [n \in DOMAIN tbl \cup {name} |-> IF n = name THEN sha ELSE tbl[n]]

(* --------------------- transactions and the write lock ----------------- *)
\* steps inside the transaction of delete (Repository.WithTx)
TxPcs == {"del_reparent", "del_delete", "del_commit"}
\* a transaction holds SQLite's write lock from its first write to its end
HoldsWrite(q) == pc[q] \in TxPcs /\ loc[q].wrote
\* SQLITE_BUSY for p: another connection holds the write lock
Busy(p) == \E q \in Procs \ {p} : HoldsWrite(q)

\* locals after a step of p; a committed write of p ends the read snapshot of
\* every transaction open in another process (its next write gets SQLITE_BUSY)
LocStep(p, lc, wrote) ==
    [q \in Procs |->
        IF q = p THEN lc
        ELSE IF wrote /\ pc[q] \in TxPcs THEN [loc[q] EXCEPT !.stale = TRUE]
        ELSE loc[q]]

\* p goes on to step l with locals lc
Goto(p, l, lc, wrote) ==
    /\ pc' = [pc EXCEPT ![p] = l]
    /\ loc' = LocStep(p, lc, wrote)
    /\ out' = out

\* the command of p ends and reports o
End(p, o, wrote) ==
    /\ pc' = [pc EXCEPT ![p] = "idle"]
    /\ loc' = LocStep(p, NoLoc, wrote)
    /\ out' = o

\* requireActive
requireActive == SessionExists # 0

\* a command that reports success when there is no session
NoReviewOk(cmd) == [cmd |-> cmd, res |-> "ok"]

\* repository.Create, run for start before StartCmd.Run: the directory and the
\* store file exist from then on
Create == TRUE
\* repository.Open, run for every other command before its Run: os.Stat(dbPath)
Open == db
\* what a command other than start reports without a session: the error of
\* Open when there is no store file, that of requireActive otherwise
NoReview(cmd) == [cmd |-> cmd, res |-> IF Open THEN "err_no_review" ELSE "err_open"]


(* ------------------------------ git calls ------------------------------ *)
\* the commit a working copy's HEAD resolves to
HeadCommit(w) == IF wt[w].head = BranchRef THEN HeadSha ELSE wt[w].head

\* git checkout <ref> --quiet: HEAD, index and files are those of ref
Checkout(ref) == [head |-> ref, index |-> ref, files |-> ref]

\* a read-tree without -u: the index takes ref's tree, the files stay
ReadTreeIndexOnly(tree, ref) == [tree EXCEPT !.index = ref]

\* git read-tree -u --reset <ref>: index and files take ref's tree, HEAD stays
ReadTreeReset(tree, ref) == [tree EXCEPT !.index = ref, !.files = ref]

\* steps that run git; any of them may fail
GitPcs == {"start_worktree", "jump_checkout", "jump_readtree"}

(* ------------------------------- start --------------------------------- *)
\* StartCmd.Run up to the bootstrap transaction: the session check, the branch,
\* the base and the commit range
StartCheck(p, w, base, name) ==
    /\ pc[p] = "idle"
    /\ w \in DOMAIN wt
    /\ UNCHANGED <<store, wt, nextId, notes>>
    /\ db' = Create
    /\ IF SessionExists > 0
       THEN IF name # ""
            THEN Goto(p, "join_insert", [cmd |-> "join", w |-> w, name |-> name], FALSE)
            ELSE IF base # << >>
                 THEN End(p, [cmd |-> "start", res |-> "err_review_active", name |-> name,
                              base |-> base], FALSE)
                 ELSE End(p, [cmd |-> "start", res |-> "ok_status", name |-> name,
                              base |-> base], FALSE)
       ELSE IF wt[w].head # BranchRef
            THEN End(p, [cmd |-> "start", res |-> "err_detached_head"], FALSE)
            ELSE LET b == IF base # << >> THEN RevParse(base) ELSE RevParse(<<"main">>)
                 IN  IF b = Null
                     THEN End(p, [cmd |-> "start", res |-> "err_invalid_ref"], FALSE)
                     ELSE IF RevList(Val(b)) = << >>
                          THEN End(p, [cmd |-> "start", res |-> "err_no_commits"], FALSE)
                          ELSE Goto(p, "start_tx",
                                    [cmd |-> "start", w |-> w, name |-> name,
                                     base |-> Val(b), shas |-> RevList(Val(b)),
                                     reviewer |-> IF name = "" THEN w ELSE name], FALSE)

\* a bootstrap whose inserts replace or skip the rows in their way
StartTxUnchecked(p) ==
    /\ pc[p] = "start_tx"
    /\ UNCHANGED <<comments, wt, nextId, db, notes>>
    /\ LET l == loc[p]
       IN  /\ session' = session \cup {[base_ref |-> l.base, branch |-> BranchRef]}
           /\ commits' = commits \cup
                 {r \in CommitRows(l.shas) : InsertCommitOk(commits, r)}
           /\ reviewers' = InsertReviewer(reviewers, l.reviewer, Null)
           /\ IF l.name # ""
              THEN Goto(p, "start_worktree", l, TRUE)
              ELSE Goto(p, "jump_checkout",
                        [cmd |-> "start", w |-> l.w, reviewer |-> l.reviewer,
                         target |-> Null], TRUE)

\* the bootstrap transaction: session, commits and the first reviewer, or nothing
StartTx(p) ==
    /\ pc[p] = "start_tx"
    /\ UNCHANGED <<comments, wt, nextId, db, notes>>
    /\ LET l == loc[p]
           rows == CommitRows(l.shas)
           ok == /\ ~Busy(p)
                 /\ \A s \in session : s.base_ref # l.base
                 /\ \A r \in rows : InsertCommitOk(commits, r)
                 /\ l.reviewer \notin DOMAIN reviewers
       IN  IF ok
           THEN /\ session' = session \cup {[base_ref |-> l.base, branch |-> BranchRef]}
                /\ commits' = commits \cup rows
                /\ reviewers' = InsertReviewer(reviewers, l.reviewer, Null)
                /\ IF l.name # ""
                   THEN Goto(p, "start_worktree", l, TRUE)
                   ELSE Goto(p, "jump_checkout",
                             [cmd |-> "start", w |-> l.w, reviewer |-> l.reviewer,
                              target |-> Null], TRUE)
           ELSE /\ UNCHANGED <<session, commits, reviewers>>
                /\ End(p, [cmd |-> "start", res |-> "err_init"], FALSE)

\* a bootstrap without a transaction: the session row stays when a later
\* statement fails
StartFailsHalfway(p) ==
    /\ pc[p] = "start_tx"
    /\ UNCHANGED <<commits, reviewers, comments, wt, nextId, db, notes>>
    /\ session' = session \cup {[base_ref |-> loc[p].base, branch |-> BranchRef]}
    /\ End(p, [cmd |-> "start", res |-> "err_init"], TRUE)

\* Repository.WithTx: a statement of the bootstrap fails, tx.Rollback
StartRollback(p) ==
    /\ pc[p] = "start_tx"
    /\ UNCHANGED <<store, wt, nextId, db, notes>>
    /\ End(p, [cmd |-> "start", res |-> "err_init"], FALSE)

\* a join that replaces the row of an existing name (INSERT OR REPLACE)
JoinReplace(p) ==
    /\ pc[p] = "join_insert"
    /\ UNCHANGED <<session, commits, comments, wt, nextId, db, notes>>
    /\ reviewers' = InsertReviewer(reviewers, loc[p].name, Null)
    /\ Goto(p, "start_worktree", loc[p], TRUE)

\* joinExistingSession: the reviewer row
JoinInsert(p) ==
    /\ pc[p] = "join_insert"
    /\ UNCHANGED <<session, commits, comments, wt, nextId, db, notes>>
    /\ IF ~Busy(p) /\ loc[p].name \notin DOMAIN reviewers
       THEN /\ reviewers' = InsertReviewer(reviewers, loc[p].name, Null)
            /\ Goto(p, "start_worktree", loc[p], TRUE)
       ELSE /\ UNCHANGED reviewers
            /\ End(p, [cmd |-> "join", res |-> "err_add_reviewer"], FALSE)

\* git worktree add <path> --detach, for start -a and for join
WorktreeAdd(p) ==
    /\ pc[p] = "start_worktree"
    /\ UNCHANGED <<store, nextId, db, notes>>
    /\ LET l == loc[p]
       IN  IF l.name \in DOMAIN wt \/ l.w \notin DOMAIN wt
           THEN /\ UNCHANGED wt
                /\ End(p, [cmd |-> l.cmd, res |-> "err_worktree"], FALSE)
           ELSE /\ wt' = [n \in DOMAIN wt \cup {l.name} |->
                             IF n = l.name THEN Checkout(HeadCommit(l.w)) ELSE wt[n]]
                /\ Goto(p, "jump_checkout",
                        [cmd |-> l.cmd, w |-> l.name, reviewer |-> l.name,
                         target |-> Null], FALSE)

(* ------------------------------- jumpTo -------------------------------- *)
\* a first navigation that reads position 1
JumpTargetSecond(l) == IF l.target # Null THEN l.target ELSE GetCommitByPosition(1)

\* the commit jumpTo is called with: the caller's, or position 0 read now
JumpTarget(l) == IF l.target # Null THEN l.target ELSE GetCommitByPosition(0)

\* jumpTo's parent point: the session base for position 0, else the commit before
ParentRef(target) ==
    IF target.position = 0
    THEN {s.base_ref : s \in session}
    ELSE {r.sha : r \in GetCommitByPosition(target.position - 1)}

\* a jumpTo that stores the cursor before it runs git
CursorBeforeCheckout(p) ==
    /\ pc[p] = "jump_checkout"
    /\ UNCHANGED <<session, commits, comments, nextId, db, notes>>
    /\ LET l == loc[p]
           t == JumpTarget(l)
       IN  IF t = Null \/ ParentRef(Val(t)) = Null \/ l.w \notin DOMAIN wt
           THEN /\ UNCHANGED <<wt, reviewers>>
                /\ End(p, [cmd |-> l.cmd, res |-> "err_jump"], FALSE)
           ELSE /\ reviewers' = UpdateReviewerCurrent(reviewers, Some(Val(t).sha), l.reviewer)
                /\ wt' = [wt EXCEPT ![l.w] = Checkout(Val(ParentRef(Val(t))))]
                /\ Goto(p, "jump_readtree", [l EXCEPT !.target = t], TRUE)

\* jumpTo: the parent point and git checkout <parent>
JumpCheckout(p) ==
    /\ pc[p] = "jump_checkout"
    /\ UNCHANGED <<store, nextId, db, notes>>
    /\ LET l == loc[p]
           t == JumpTarget(l)
       IN  IF t = Null \/ ParentRef(Val(t)) = Null \/ l.w \notin DOMAIN wt
           THEN /\ UNCHANGED wt
                /\ End(p, [cmd |-> l.cmd, res |-> "err_jump"], FALSE)
           ELSE /\ wt' = [wt EXCEPT ![l.w] = Checkout(Val(ParentRef(Val(t))))]
                /\ Goto(p, "jump_readtree", [l EXCEPT !.target = t], FALSE)

\* jumpTo: git read-tree -u --reset <target>
JumpReadTree(p) ==
    /\ pc[p] = "jump_readtree"
    /\ UNCHANGED <<store, nextId, db, notes>>
    /\ wt' = [wt EXCEPT ![loc[p].w] = ReadTreeReset(wt[loc[p].w], Val(loc[p].target).sha)]
    /\ Goto(p, "jump_update", loc[p], FALSE)

\* a jumpTo that stores the checked-out parent point as the cursor
CursorAtParent(p) ==
    /\ pc[p] = "jump_update"
    /\ UNCHANGED <<session, commits, comments, wt, nextId, db, notes>>
    /\ IF Busy(p)
       THEN /\ UNCHANGED reviewers
            /\ End(p, [cmd |-> loc[p].cmd, res |-> "err_update"], FALSE)
       ELSE /\ reviewers' = UpdateReviewerCurrent(reviewers, ParentRef(Val(loc[p].target)),
                                                  loc[p].reviewer)
            /\ End(p, [cmd |-> loc[p].cmd, res |-> "ok"], TRUE)

\* jumpTo: the cursor write, after both git steps
JumpUpdate(p) ==
    /\ pc[p] = "jump_update"
    /\ UNCHANGED <<session, commits, comments, wt, nextId, db, notes>>
    /\ IF Busy(p)
       THEN /\ UNCHANGED reviewers
            /\ End(p, [cmd |-> loc[p].cmd, res |-> "err_update"], FALSE)
       ELSE /\ reviewers' = UpdateReviewerCurrent(reviewers, Some(Val(loc[p].target).sha),
                                                  loc[p].reviewer)
            /\ End(p, [cmd |-> loc[p].cmd, res |-> "ok"], TRUE)

\* a git call exits non-zero: the command returns the error
GitFail(p) ==
    /\ pc[p] \in GitPcs
    /\ UNCHANGED <<store, wt, nextId, db, notes>>
    /\ End(p, [cmd |-> loc[p].cmd, res |-> "err_git"], FALSE)

(* -------------------------------- next --------------------------------- *)
\* a target that stays at the cursor's own position
NextIdxStay(cursor, list) ==
    IF cursor = Null THEN 0 ELSE findCommitPosition(list, Val(cursor))

\* a target two positions after the cursor
NextIdxSkip(cursor, list) ==
    IF cursor = Null THEN 0 ELSE findCommitPosition(list, Val(cursor)) + 2

\* the position NextCmd.Run targets: 0 without a cursor, else the cursor's + 1
NextIdx(cursor, list) ==
    IF cursor = Null THEN 0 ELSE findCommitPosition(list, Val(cursor)) + 1

\* NextCmd.Run stops with "All commits reviewed."
PastLast(nextIdx, total) == nextIdx >= total

\* NextCmd.Run up to the call of jumpTo
NextBegin(p, w) ==
    /\ pc[p] = "idle"
    /\ w \in DOMAIN wt
    /\ UNCHANGED <<store, wt, nextId, db, notes>>
    /\ IF ~requireActive
       THEN End(p, NoReview("next"), FALSE)
       ELSE IF w \notin DOMAIN reviewers
            THEN End(p, [cmd |-> "next", res |-> "err_get_reviewer", w |-> w], FALSE)
            ELSE LET list == ListCommits
                     nextIdx == NextIdx(reviewers[w], list)
                 IN  IF nextIdx = 0 /\ reviewers[w] # Null
                     THEN End(p, [cmd |-> "next", res |-> "err_current_not_found", w |-> w], FALSE)
                     ELSE IF PastLast(nextIdx, Len(list))
                          THEN End(p, [cmd |-> "next", res |-> "ok_all_reviewed", w |-> w], FALSE)
                          ELSE Goto(p, "jump_checkout",
                                    [cmd |-> "next", w |-> w, reviewer |-> w,
                                     target |-> Some(list[nextIdx + 1])], FALSE)


(* -------------------------------- jump --------------------------------- *)
\* JumpCmd.Run up to the call of jumpTo
JumpFind(p, w, hash) ==
    /\ pc[p] = "idle"
    /\ w \in DOMAIN wt
    /\ UNCHANGED <<store, wt, nextId, db, notes>>
    /\ IF ~requireActive
       THEN End(p, NoReview("jump"), FALSE)
       ELSE IF FindCommitBySHAPrefix(hash) = {}
            THEN End(p, [cmd |-> "jump", res |-> "err_not_found", w |-> w, hash |-> hash],
                     FALSE)
            ELSE \E t \in FindCommitBySHAPrefix(hash) :
                    Goto(p, "jump_checkout",
                         [cmd |-> "jump", w |-> w, reviewer |-> w, target |-> Some(t),
                          hash |-> hash], FALSE)

(* --------------------------------- add --------------------------------- *)
\* a parse that takes "S,E" without comparing S and E
ParseWithoutOrder(raw) ==
    LET i == IndexByte(raw, ",")
        bad == [ok |-> FALSE, start |-> Null, end |-> Null]
    IN  IF raw = << >> THEN [ok |-> TRUE, start |-> Null, end |-> Null]
        ELSE IF i >= 0
             THEN LET s == SubSeq(raw, 1, i)
                      e == SubSeq(raw, i + 2, Len(raw))
                  IN  IF ~ParseIntOk(s) \/ ~ParseIntOk(e) THEN bad
                      ELSE [ok |-> TRUE, start |-> Some(ParseIntVal(s)),
                            end |-> Some(ParseIntVal(e))]
             ELSE IF ~ParseIntOk(raw) THEN bad
                  ELSE [ok |-> TRUE, start |-> Some(ParseIntVal(raw)),
                        end |-> Some(ParseIntVal(raw))]

\* parseLineRange: "" is no lines, "N" is N..N, "S,E" is S..E with S <= E
parseLineRange(raw) ==
    LET i == IndexByte(raw, ",")
        none == [ok |-> TRUE, start |-> Null, end |-> Null]
        bad == [ok |-> FALSE, start |-> Null, end |-> Null]
    IN  IF raw = << >> THEN none
        ELSE IF i >= 0
             THEN LET s == SubSeq(raw, 1, i)
                      e == SubSeq(raw, i + 2, Len(raw))
                  IN  IF ~ParseIntOk(s) THEN bad
                      ELSE IF ~ParseIntOk(e) THEN bad
                      ELSE IF ParseIntVal(s) > ParseIntVal(e) THEN bad
                      ELSE [ok |-> TRUE, start |-> Some(ParseIntVal(s)),
                            end |-> Some(ParseIntVal(e))]
             ELSE IF ~ParseIntOk(raw) THEN bad
                  ELSE [ok |-> TRUE, start |-> Some(ParseIntVal(raw)),
                        end |-> Some(ParseIntVal(raw))]

\* a reply row that takes the parent's resolution fields along with the rest
ReplyCopiesResolution(parentId, parent, msg, now, author) ==
    [parent EXCEPT !.parent = Some(parentId), !.body = msg, !.createdAt = now,
                   !.createdBy = author]

\* a reply that takes the parent's commit but not its file and lines
ReplyWithoutFile(parentId, parent, msg, now, author) ==
    [parent |-> Some(parentId), commit |-> parent.commit, file |-> Null,
     startLine |-> Null, endLine |-> Null, body |-> msg,
     resolvedAt |-> Null, resolvedBy |-> Null, createdAt |-> now, createdBy |-> author]

\* the row of a reply: commit, file and lines are the parent's
ReplyParams(parentId, parent, msg, now, author) ==
    [parent |-> Some(parentId), commit |-> parent.commit, file |-> parent.file,
     startLine |-> parent.startLine, endLine |-> parent.endLine, body |-> msg,
     resolvedAt |-> Null, resolvedBy |-> Null, createdAt |-> now, createdBy |-> author]

\* a top-level row pinned to the first commit of the list, not to the cursor
RootAtFirstCommit(commitSHA, file, lr, msg, now, author) ==
    [parent |-> Null, commit |-> ListCommits[1].sha,
     file |-> IF file # "" THEN Some(file) ELSE Null,
     startLine |-> lr.start, endLine |-> lr.end, body |-> msg,
     resolvedAt |-> Null, resolvedBy |-> Null, createdAt |-> now, createdBy |-> author]

\* the row of a top-level comment: the commit is the reviewer's cursor
RootParams(commitSHA, file, lr, msg, now, author) ==
    [parent |-> Null, commit |-> commitSHA,
     file |-> IF file # "" THEN Some(file) ELSE Null,
     startLine |-> lr.start, endLine |-> lr.end, body |-> msg,
     resolvedAt |-> Null, resolvedBy |-> Null, createdAt |-> now, createdBy |-> author]

\* AddCmd.Run up to InsertComment
AddBegin(p, w, file, line, replyTo, author, msg, now) ==
    /\ pc[p] = "idle"
    /\ w \in DOMAIN wt
    /\ UNCHANGED <<store, wt, db, notes>>
    /\ IF ~requireActive
       THEN /\ UNCHANGED nextId
            /\ End(p, NoReview("add"), FALSE)
       ELSE /\ nextId' = nextId + 1
            /\ LET newID == IdOf(nextId)
                   by == IF author = "" THEN w ELSE author
                   l == [cmd |-> "add", w |-> w, replyTo |-> replyTo, id |-> newID,
                         range |-> line]
               IN  IF replyTo # << >>
                   THEN IF FindCommentByPrefix(comments, replyTo) = {}
                        THEN End(p, [cmd |-> "add", res |-> "err_not_found", id |-> replyTo], FALSE)
                        ELSE \E parent \in FindCommentByPrefix(comments, replyTo) :
                                Goto(p, "add_insert",
                                     l @@ [row |-> ReplyParams(parent, comments[parent], msg, now, by)],
                                     FALSE)
                   ELSE IF w \notin DOMAIN reviewers
                        THEN End(p, [cmd |-> "add", res |-> "err_get_reviewer", w |-> w], FALSE)
                        ELSE IF reviewers[w] = Null
                             THEN End(p, [cmd |-> "add", res |-> "err_no_commit", w |-> w], FALSE)
                             ELSE IF ~parseLineRange(line).ok
                                  THEN End(p, [cmd |-> "add", res |-> "err_line_range", w |-> w,
                                              range |-> line], FALSE)
                                  ELSE Goto(p, "add_insert",
                                            l @@ [row |-> RootParams(Val(reviewers[w]), file,
                                                     parseLineRange(line), msg, now, by)],
                                            FALSE)

\* an insert that does not wait for the write lock of another connection
AddInsertUnlocked(p) ==
    /\ pc[p] = "add_insert"
    /\ UNCHANGED <<session, commits, reviewers, wt, nextId, db, notes>>
    /\ IF InsertCommentOk(comments, loc[p].id, loc[p].row)
       THEN /\ comments' = InsertComment(comments, loc[p].id, loc[p].row)
            /\ End(p, [cmd |-> "add", res |-> "ok"], TRUE)
       ELSE /\ UNCHANGED comments
            /\ End(p, [cmd |-> "add", res |-> "err_save"], FALSE)

\* AddCmd.Run: InsertComment
AddInsert(p) ==
    /\ pc[p] = "add_insert"
    /\ UNCHANGED <<session, commits, reviewers, wt, nextId, db, notes>>
    /\ IF ~Busy(p) /\ InsertCommentOk(comments, loc[p].id, loc[p].row)
       THEN /\ comments' = InsertComment(comments, loc[p].id, loc[p].row)
            /\ End(p, [cmd |-> "add", res |-> "ok"], TRUE)
       ELSE /\ UNCHANGED comments
            /\ End(p, [cmd |-> "add", res |-> "err_save"], FALSE)

(* ------------------------------- delete -------------------------------- *)
\* DeleteCmd.Run: begin the transaction and look the target up
DeleteFind(p, w, arg) ==
    /\ pc[p] = "idle"
    /\ w \in DOMAIN wt
    /\ UNCHANGED <<store, wt, nextId, db, notes>>
    /\ IF ~requireActive
       THEN End(p, NoReview("delete"), FALSE)
       ELSE IF FindCommentByPrefix(comments, arg) = {}
            THEN End(p, [cmd |-> "delete", res |-> "err_not_found"], FALSE)
            ELSE \E t \in FindCommentByPrefix(comments, arg) :
                    Goto(p, IF comments[t].parent # Null THEN "del_reparent" ELSE "del_delete",
                         [cmd |-> "delete", arg |-> arg, target |-> t,
                          parent |-> comments[t].parent,
                          tx |-> << >>, wrote |-> FALSE, stale |-> FALSE], FALSE)

\* the first write of a transaction fails when another connection holds the
\* write lock or has committed since the transaction's first read
TxCanWrite(p) == loc[p].wrote \/ (~loc[p].stale /\ ~Busy(p))
\* the comments table as the transaction of p sees it
TxView(p) == IF loc[p].wrote THEN loc[p].tx ELSE comments

\* a re-parenting written through the plain connection, outside the transaction
ReparentOutsideTx(p) ==
    /\ pc[p] = "del_reparent"
    /\ UNCHANGED <<session, commits, reviewers, wt, nextId, db, notes>>
    /\ IF ~Busy(p)
       THEN /\ comments' = ReparentChildren(comments, loc[p].parent, Some(loc[p].target))
            /\ Goto(p, "del_delete", loc[p], TRUE)
       ELSE /\ UNCHANGED comments
            /\ End(p, [cmd |-> "delete", res |-> "err_busy"], FALSE)

\* DeleteCmd.Run: a non-root target's children go to the target's parent
DeleteReparent(p) ==
    /\ pc[p] = "del_reparent"
    /\ UNCHANGED <<store, wt, nextId, db, notes>>
    /\ IF TxCanWrite(p)
       THEN Goto(p, "del_delete",
                 [loc[p] EXCEPT !.wrote = TRUE,
                     !.tx = ReparentChildren(TxView(p), loc[p].parent, Some(loc[p].target))],
                 FALSE)
       ELSE End(p, [cmd |-> "delete", res |-> "err_busy"], FALSE)

\* DeleteCmd.Run: the target row is deleted (ON DELETE CASCADE takes its subtree)
DeleteRow(p) ==
    /\ pc[p] = "del_delete"
    /\ UNCHANGED <<store, wt, nextId, db, notes>>
    /\ IF TxCanWrite(p)
       THEN Goto(p, "del_commit",
                 [loc[p] EXCEPT !.wrote = TRUE, !.tx = DeleteComment(TxView(p), loc[p].target)],
                 FALSE)
       ELSE End(p, [cmd |-> "delete", res |-> "err_busy"], FALSE)

\* Repository.WithTx: tx.Commit publishes the transaction's writes at once
DeleteCommit(p) ==
    /\ pc[p] = "del_commit"
    /\ UNCHANGED <<session, commits, reviewers, wt, nextId, db, notes>>
    /\ comments' = loc[p].tx
    /\ End(p, [cmd |-> "delete", res |-> "ok", root |-> loc[p].parent = Null,
               removed |-> Cardinality(DOMAIN comments \ DOMAIN loc[p].tx),
               moved |-> Cardinality({i \in DOMAIN loc[p].tx :
                                         loc[p].tx[i].parent # comments[i].parent})], TRUE)

\* Repository.WithTx: a statement of the transaction fails, tx.Rollback
DeleteRollback(p) ==
    /\ pc[p] \in TxPcs
    /\ UNCHANGED <<store, wt, nextId, db, notes>>
    /\ End(p, [cmd |-> "delete", res |-> "err_tx", undone |-> loc[p].wrote], FALSE)

(* -------------------------- resolve / unresolve ------------------------ *)
\* ResolveCmd.Run up to the ResolveComment statement
ResolveFind(p, w, arg, name, now) ==
    /\ pc[p] = "idle"
    /\ w \in DOMAIN wt
    /\ UNCHANGED <<store, wt, nextId, db, notes>>
    /\ IF ~requireActive
       THEN End(p, NoReview("resolve"), FALSE)
       ELSE IF FindCommentByPrefix(comments, arg) = {}
            THEN End(p, [cmd |-> "resolve", res |-> "err_not_found"], FALSE)
            ELSE \E t \in FindCommentByPrefix(comments, arg) :
                    IF comments[t].parent # Null
                    THEN End(p, [cmd |-> "resolve", res |-> "err_not_root"], FALSE)
                    ELSE IF comments[t].resolvedAt # Null
                         THEN End(p, [cmd |-> "resolve", res |-> "err_already_resolved"], FALSE)
                         ELSE Goto(p, "resolve_update",
                                   [cmd |-> "resolve", w |-> w, arg |-> arg, name |-> name,
                                    target |-> t, at |-> now,
                                    by |-> IF name = "" THEN w ELSE name], FALSE)

\* ResolveCmd.Run: the ResolveComment statement
ResolveUpdate(p) ==
    /\ pc[p] = "resolve_update"
    /\ UNCHANGED <<session, commits, reviewers, wt, nextId, db, notes>>
    /\ IF Busy(p)
       THEN /\ UNCHANGED comments
            /\ End(p, [cmd |-> "resolve", res |-> "err_update"], FALSE)
       ELSE /\ comments' = ResolveComment(comments, Some(loc[p].at), Some(loc[p].by),
                                          loc[p].target)
            /\ End(p, [cmd |-> "resolve", res |-> "ok"], TRUE)

\* UnresolveCmd.Run up to the UnresolveComment statement
UnresolveFind(p, w, arg) ==
    /\ pc[p] = "idle"
    /\ w \in DOMAIN wt
    /\ UNCHANGED <<store, wt, nextId, db, notes>>
    /\ IF ~requireActive
       THEN End(p, NoReview("unresolve"), FALSE)
       ELSE IF FindCommentByPrefix(comments, arg) = {}
            THEN End(p, [cmd |-> "unresolve", res |-> "err_not_found"], FALSE)
            ELSE \E t \in FindCommentByPrefix(comments, arg) :
                    IF comments[t].parent # Null
                    THEN End(p, [cmd |-> "unresolve", res |-> "err_not_root"], FALSE)
                    ELSE IF comments[t].resolvedAt = Null
                         THEN End(p, [cmd |-> "unresolve", res |-> "err_not_resolved"], FALSE)
                         ELSE Goto(p, "unresolve_update",
                                   [cmd |-> "unresolve", arg |-> arg, target |-> t], FALSE)

\* UnresolveCmd.Run: the UnresolveComment statement
UnresolveUpdate(p) ==
    /\ pc[p] = "unresolve_update"
    /\ UNCHANGED <<session, commits, reviewers, wt, nextId, db, notes>>
    /\ IF Busy(p)
       THEN /\ UNCHANGED comments
            /\ End(p, [cmd |-> "unresolve", res |-> "err_update"], FALSE)
       ELSE /\ comments' = UnresolveComment(comments, loc[p].target)
            /\ End(p, [cmd |-> "unresolve", res |-> "ok"], TRUE)


(* --------------------------- finish and abort -------------------------- *)
\* SELECT ... FROM comments: the rows in the order they were inserted, which
\* for commands run one after the other is the order of their identifiers
ListAllComments(tbl) == SortIds(DOMAIN tbl)

\* the comments reached from S by following parent links downwards
RECURSIVE Reach(_, _)
Reach(tbl, S) ==
    LET kids == {i \in DOMAIN tbl : tbl[i].parent # Null /\ Val(tbl[i].parent) \in S} \ S
    IN  IF kids = {} THEN S ELSE Reach(tbl, S \cup kids)

\* descendants: every comment below id, sorted by identifier
\* the direct replies of id alone
DirectReplies(tbl, id) == SortIds({i \in DOMAIN tbl : tbl[i].parent = Some(id)})

descendants(tbl, id) == SortIds(Reach(tbl, {id}) \ {id})

\* the lines of topLevel[k..]: each root, then its descendants
RECURSIVE NoteLines(_, _, _)
NoteLines(tbl, topLevel, k) ==
    IF k > Len(topLevel) THEN << >>
    ELSE <<topLevel[k]>> \o descendants(tbl, topLevel[k]) \o NoteLines(tbl, topLevel, k + 1)

\* a block that puts the roots without a file before the roots with one
GeneralFirstNotes(tbl, commitSHA) ==
    LET all == ListAllComments(tbl)
        general == SelectSeq(all, LAMBDA i : tbl[i].commit = commitSHA /\ tbl[i].parent = Null
                                             /\ tbl[i].file = Null)
        onFile == SelectSeq(all, LAMBDA i : tbl[i].commit = commitSHA /\ tbl[i].parent = Null
                                            /\ tbl[i].file # Null)
    IN  NoteLines(tbl, general \o onFile, 1)

\* a block of the roots alone
RootsOnlyNotes(tbl, commitSHA) ==
    SelectSeq(ListAllComments(tbl), LAMBDA i : tbl[i].commit = commitSHA /\ tbl[i].parent = Null)

\* buildCommitNotes: the comments named by the lines of the block for commitSHA,
\* in order: the roots attached to it as ListAllComments returns them, each
\* followed by its descendants; << >> is the empty string
buildCommitNotes(tbl, commitSHA) ==
    LET topLevel == SelectSeq(ListAllComments(tbl),
                              LAMBDA i : tbl[i].commit = commitSHA /\ tbl[i].parent = Null)
    IN  NoteLines(tbl, topLevel, 1)

\* git notes append -m <message> <sha>
NotesAppend(nt, sha, message) == [nt EXCEPT ![sha] = Append(@, message)]

\* steps of finishReview and cleanupReview
FinishPcs == {"fin_notes", "fin_worktrees", "fin_checkout", "fin_remove"}

\* a finish or abort without requireMainWorktree
FinishFromAnywhere(p, w, cmd) ==
    /\ pc[p] = "idle"
    /\ w \in DOMAIN wt
    /\ UNCHANGED <<store, wt, nextId, db, notes>>
    /\ IF ~Open
       THEN End(p, [cmd |-> cmd, res |-> "err_open", w |-> w], FALSE)
       ELSE IF ~requireActive
            THEN End(p, [cmd |-> cmd, res |-> "err_no_review", w |-> w], FALSE)
            ELSE Goto(p, IF cmd = "finish" THEN "fin_notes" ELSE "fin_worktrees",
                      [cmd |-> cmd, w |-> w, branch |-> GetSession.branch,
                       list |-> ListCommits, snap |-> comments, k |-> 1, warn |-> 0],
                      FALSE)

\* FinishCmd.Run / AbortCmd.Run up to the first teardown step: Open, then
\* requireMainWorktree, requireActive and the reads of the session
FinishBegin(p, w, cmd) ==
    /\ pc[p] = "idle"
    /\ w \in DOMAIN wt
    /\ UNCHANGED <<store, wt, nextId, db, notes>>
    /\ IF ~Open
       THEN End(p, [cmd |-> cmd, res |-> "err_open", w |-> w], FALSE)
       ELSE IF w # ""
            THEN End(p, [cmd |-> cmd, res |-> "err_wrong_worktree", w |-> w], FALSE)
            ELSE IF ~requireActive
                 THEN End(p, [cmd |-> cmd, res |-> "err_no_review", w |-> w], FALSE)
                 ELSE Goto(p, IF cmd = "finish" THEN "fin_notes" ELSE "fin_worktrees",
                           [cmd |-> cmd, w |-> w, branch |-> GetSession.branch,
                            list |-> ListCommits, snap |-> comments, k |-> 1, warn |-> 0],
                           FALSE)

\* the locals and the step after the loop body for commit k
AfterNote(p, warned) ==
    LET l == [loc[p] EXCEPT !.warn = @ + (IF warned THEN 1 ELSE 0), !.k = @ + 1]
    IN  Goto(p, IF loc[p].k = Len(loc[p].list) THEN "fin_worktrees" ELSE "fin_notes", l, FALSE)

\* finishReview: the loop body for one commit, its note written if not empty
FinishNote(p) ==
    /\ pc[p] = "fin_notes"
    /\ UNCHANGED <<store, wt, nextId, db>>
    /\ LET sha == loc[p].list[loc[p].k].sha
           note == buildCommitNotes(loc[p].snap, sha)
       IN  notes' = IF note # << >> THEN NotesAppend(notes, sha, note) ELSE notes
    /\ AfterNote(p, FALSE)

\* finishReview: g.NotesAppend fails for one commit, a warning
FinishNoteFail(p) ==
    /\ pc[p] = "fin_notes"
    /\ buildCommitNotes(loc[p].snap, loc[p].list[loc[p].k].sha) # << >>
    /\ UNCHANGED <<store, wt, nextId, db, notes>>
    /\ AfterNote(p, TRUE)

\* the reviewers whose working copy cleanupReview removes: a name, and the
\* directory exists
Provisioned == {n \in DOMAIN reviewers : n # "" /\ n \in DOMAIN wt}

\* cleanupReview: git worktree remove --force for every named reviewer
CleanupWorktrees(p) ==
    /\ pc[p] = "fin_worktrees"
    /\ UNCHANGED <<store, nextId, db, notes>>
    /\ wt' = [n \in DOMAIN wt \ Provisioned |-> wt[n]]
    /\ Goto(p, "fin_checkout", loc[p], FALSE)

\* cleanupReview: some of the removals fail, a warning each
CleanupWorktreesFail(p) ==
    /\ pc[p] = "fin_worktrees"
    /\ UNCHANGED <<store, nextId, db, notes>>
    /\ \E failed \in SUBSET Provisioned :
          /\ failed # {}
          /\ wt' = [n \in DOMAIN wt \ (Provisioned \ failed) |-> wt[n]]
          /\ Goto(p, "fin_checkout", [loc[p] EXCEPT !.warn = @ + Cardinality(failed)], FALSE)

\* cleanupReview: git checkout --force <session.Branch> in the calling working copy
CleanupCheckout(p) ==
    /\ pc[p] = "fin_checkout"
    /\ UNCHANGED <<store, nextId, db, notes>>
    /\ wt' = [wt EXCEPT ![loc[p].w] = Checkout(loc[p].branch)]
    /\ Goto(p, "fin_remove", loc[p], FALSE)

\* a finish that gives up when the branch cannot be restored
CheckoutFailStops(p) ==
    /\ pc[p] = "fin_checkout"
    /\ UNCHANGED <<store, wt, nextId, db, notes>>
    /\ End(p, [cmd |-> loc[p].cmd, res |-> "err_checkout", warn |-> loc[p].warn], FALSE)

\* cleanupReview: the checkout fails, a warning
CleanupCheckoutFail(p) ==
    /\ pc[p] = "fin_checkout"
    /\ UNCHANGED <<store, wt, nextId, db, notes>>
    /\ Goto(p, "fin_remove", [loc[p] EXCEPT !.warn = @ + 1], FALSE)

\* a teardown that deletes the rows of the session but leaves the comments
RemoveKeepsComments(p) ==
    /\ pc[p] = "fin_remove"
    /\ UNCHANGED <<comments, nextId, db, notes>>
    /\ session' = {} /\ commits' = {} /\ reviewers' = EmptyFn
    /\ wt' = [n \in DOMAIN wt \cap {""} |-> wt[n]]
    /\ End(p, [cmd |-> loc[p].cmd, res |-> "ok", warn |-> loc[p].warn], TRUE)

\* cleanupReview: repo.Close and os.RemoveAll of the review directory, which
\* holds the store file and every working copy made for a named reviewer
CleanupRemove(p) ==
    /\ pc[p] = "fin_remove"
    /\ UNCHANGED <<nextId, notes>>
    /\ db' = FALSE
    /\ session' = {} /\ commits' = {} /\ reviewers' = EmptyFn /\ comments' = EmptyFn
    /\ wt' = [n \in DOMAIN wt \cap {""} |-> wt[n]]
    /\ End(p, [cmd |-> loc[p].cmd, res |-> "ok", warn |-> loc[p].warn], TRUE)

(* ------------------------ list, status and state ---------------------- *)
\* findRoot: the comment the parent links lead to from id, the last one found
\* when a parent is not stored
RECURSIVE findRoot(_, _)
findRoot(tbl, id) ==
    IF tbl[id].parent = Null \/ Val(tbl[id].parent) \notin DOMAIN tbl
    THEN id
    ELSE findRoot(tbl, Val(tbl[id].parent))

\* a filter that tests each comment by its own fields
FilterEachComment(tbl, list, commit, unresolved, creator, file) ==
    LET all == ListAllComments(tbl)
        matching == SelectSeq(list, LAMBDA cm : IsPrefix(commit, cm.sha))
        pass(i) == /\ commit # << >> => tbl[i].commit = matching[1].sha
                   /\ unresolved => tbl[i].resolvedAt = Null
                   /\ creator # "" => tbl[i].createdBy = creator
                   /\ file # "" => tbl[i].file = Some(file)
    IN  IF commit # << >> /\ matching = << >> THEN << >>
        ELSE SelectSeq(all, pass)

\* filterComments: the comments list works on, in stored order: all of them
\* without a filter, else the roots that pass every filter that is set and the
\* comments whose findRoot is such a root
filterComments(tbl, list, commit, unresolved, creator, file) ==
    LET all == ListAllComments(tbl)
        hasFilter == commit # << >> \/ unresolved \/ creator # "" \/ file # ""
        matching == SelectSeq(list, LAMBDA cm : IsPrefix(commit, cm.sha))
        rootID(i) == /\ tbl[i].parent = Null
                     /\ commit # << >> => tbl[i].commit = matching[1].sha
                     /\ unresolved => tbl[i].resolvedAt = Null
                     /\ creator # "" => tbl[i].createdBy = creator
                     /\ file # "" => tbl[i].file = Some(file)
    IN  IF ~hasFilter THEN all
        ELSE IF commit # << >> /\ matching = << >> THEN << >>
        ELSE SelectSeq(all, LAMBDA i : rootID(findRoot(tbl, i)))

\* ListCmd.Run: the roots on a file, put together file by file in the order the
\* files are first seen
RECURSIVE FileEntries(_, _)
FileEntries(tbl, q) ==
    IF q = << >> THEN << >>
    ELSE SelectSeq(q, LAMBDA i : tbl[i].file = tbl[q[1]].file)
            \o FileEntries(tbl, SelectSeq(q, LAMBDA i : tbl[i].file # tbl[q[1]].file))

\* ListCmd.Run: the lines printed for the commits from the k-th on: per commit
\* the general roots of the filtered comments, then the roots on a file, each
\* with its descendants unless --top-level is set
RECURSIVE ListSections(_, _, _, _, _)
ListSections(tbl, shownSet, list, k, topLevel) ==
    IF k > Len(list) THEN << >>
    ELSE LET commitTopLevel == SelectSeq(shownSet, LAMBDA i : /\ tbl[i].commit = list[k].sha
                                                              /\ tbl[i].parent = Null)
             general == SelectSeq(commitTopLevel, LAMBDA i : tbl[i].file = Null)
             onFile == SelectSeq(commitTopLevel, LAMBDA i : tbl[i].file # Null)
             roots == general \o FileEntries(tbl, onFile)
         IN  (IF topLevel THEN roots ELSE NoteLines(tbl, roots, 1))
                \o ListSections(tbl, shownSet, list, k + 1, topLevel)

\* ListCmd.Run, with showThread when an id is given
ListBegin(p, w, arg, commit, unresolved, creator, file, topLevel) ==
    /\ pc[p] = "idle"
    /\ w \in DOMAIN wt
    /\ UNCHANGED <<store, wt, nextId, db, notes>>
    /\ IF ~requireActive
       THEN End(p, NoReview("list"), FALSE)
       ELSE IF arg # << >>
            THEN IF FindCommentByPrefix(comments, arg) = {}
                 THEN End(p, [cmd |-> "list", res |-> "err_not_found"], FALSE)
                 ELSE \E t \in FindCommentByPrefix(comments, arg) :
                         LET root == findRoot(comments, t)
                             thread == <<root>> \o descendants(comments, root)
                         IN  End(p, [cmd |-> "list", res |-> "ok", arg |-> arg, found |-> t,
                                     filtered |-> thread, shown |-> thread], FALSE)
            ELSE LET result == filterComments(comments, ListCommits, commit, unresolved,
                                              creator, file)
                 IN  End(p, [cmd |-> "list", res |-> "ok",
                             filter |-> [commit |-> commit, unresolved |-> unresolved,
                                         creator |-> creator, file |-> file],
                             filtered |-> result,
                             shown |-> ListSections(comments, result, ListCommits, 1, topLevel)],
                         FALSE)

\* showStatus: the branch, the position of each reviewer when there are
\* several, and per commit the number of comments and whether it is before,
\* at or after the cursor of the reviewer of this working copy
StatusBegin(p, w) ==
    /\ pc[p] = "idle"
    /\ w \in DOMAIN wt
    /\ UNCHANGED <<store, wt, nextId, db, notes>>
    /\ IF ~requireActive
       THEN End(p, NoReview("status"), FALSE)
       ELSE LET list == ListCommits
                currentPos == IF w \in DOMAIN reviewers /\ reviewers[w] # Null
                              THEN findCommitPosition(list, Val(reviewers[w]))
                              ELSE -1
            IN  End(p, [cmd |-> "status", res |-> "ok", branch |-> GetSession.branch,
                        progress |-> IF Cardinality(DOMAIN reviewers) > 1
                                     THEN [n \in DOMAIN reviewers |->
                                             IF reviewers[n] # Null
                                             THEN findCommitPosition(list, Val(reviewers[n]))
                                             ELSE -1]
                                     ELSE EmptyFn,
                        lines |-> [k \in 1..Len(list) |->
                                     [count |-> Cardinality({i \in DOMAIN comments :
                                                     comments[i].commit = list[k].sha}),
                                      mark |-> IF list[k].position < currentPos THEN "done"
                                               ELSE IF list[k].position = currentPos
                                                    THEN "current" ELSE "todo"]]],
                    FALSE)

\* a snapshot whose current is the cursor of any reviewer that has one
StateOfAnyReviewer(w) ==
    LET list == ListCommits
        at == {findCommitPosition(list, Val(reviewers[n])) :
                  n \in {m \in DOMAIN reviewers : reviewers[m] # Null}}
    IN  [baseRef |-> GetSession.base_ref, branch |-> GetSession.branch,
         commits |-> [k \in 1..Len(list) |-> list[k].sha],
         current |-> IF at # {} THEN Some(CHOOSE x \in at : TRUE) ELSE Null,
         comments |-> [k \in 1..Len(ListAllComments(comments)) |->
                          [id |-> ListAllComments(comments)[k],
                           row |-> comments[ListAllComments(comments)[k]]]]]

\* StateCmd.Run for a session: base, branch, the SHAs in position order, the
\* position of the cursor of the reviewer named after the working copy, and
\* the comments
stateOutput(w) ==
    LET list == ListCommits
        pos == IF w \in DOMAIN reviewers /\ reviewers[w] # Null
               THEN findCommitPosition(list, Val(reviewers[w]))
               ELSE -1
    IN  [baseRef |-> GetSession.base_ref, branch |-> GetSession.branch,
         commits |-> [k \in 1..Len(list) |-> list[k].sha],
         current |-> IF pos >= 0 THEN Some(pos) ELSE Null,
         comments |-> [k \in 1..Len(ListAllComments(comments)) |->
                          [id |-> ListAllComments(comments)[k],
                           row |-> comments[ListAllComments(comments)[k]]]]]

\* StateCmd.Run: "null" without a store file or without a session
StateBegin(p, w) ==
    /\ pc[p] = "idle"
    /\ w \in DOMAIN wt
    /\ UNCHANGED <<store, wt, nextId, db, notes>>
    /\ End(p, [cmd |-> "state", res |-> "ok", w |-> w,
               snapshot |-> IF ~Open \/ SessionExists = 0 THEN Null ELSE Some(stateOutput(w))],
           FALSE)

(* ----------------------- command-line arguments ------------------------ *)
\* comment id arguments: the identifiers, their prefixes, and LIKE patterns
AllIds == {IdOf(k) : k \in 0..(MaxIds - 1)}
IdArgs == {SubSeq(id, 1, n) : id \in AllIds, n \in 0..2}
              \cup {<<"_">>, <<"_", "1">>, <<"%", "1">>, <<"9">>}

\* commit arguments of jump: a full SHA, a prefix of two commits, a prefix of
\* one commit, and a text no SHA begins with
HashArgs == {History[2], <<"a">>, <<"b">>, <<"z">>}

\* the arguments commands are run with: working copies to run from, start's
\* base and role, add's -f, -l, -a and message, comment ids, time.Now(), the
\* commit of jump, the --commit and --top-level of list, and how many comments
\* are added in one behaviour
Args ==
    [wt |-> {"", "sec"}, base |-> {<< >>, History[1], HeadSha, <<"z">>}, role |-> {"", "sec"},
     file |-> {"", "a.go"}, line |-> {<< >>, <<"1", ",", "2">>, <<"2", ",", "1">>},
     author |-> {"", "bob"}, msg |-> {"m"}, id |-> IdArgs, now |-> {"t1", "t2"},
     hash |-> HashArgs, commit |-> {<< >>} \cup HashArgs, top |-> BOOLEAN, ids |-> MaxIds]

(* --------------------------- the state machine ------------------------- *)

Init ==
    /\ session = {}
    /\ commits = {}
    /\ reviewers = EmptyFn
    /\ comments = EmptyFn
    /\ wt = [n \in {""} |-> Checkout(BranchRef)]
    /\ nextId = 0
    /\ pc = [p \in Procs |-> "idle"]
    /\ loc = [p \in Procs |-> NoLoc]
    /\ out = NoOut
    /\ db = FALSE
    /\ notes = [c \in HistorySet |-> << >>]

\* the commands, run with arguments from A
Start(p, A) == \E w \in A.wt, base \in A.base, name \in A.role : StartCheck(p, w, base, name)
NextCmd(p, A) == \E w \in A.wt : NextBegin(p, w)
Jump(p, A) == \E w \in A.wt, hash \in A.hash : JumpFind(p, w, hash)
Add(p, A) ==
    /\ nextId < A.ids
    /\ \E w \in A.wt, file \in A.file, line \in A.line, replyTo \in A.id,
       author \in A.author, msg \in A.msg, now \in A.now :
        AddBegin(p, w, file, line, replyTo, author, msg, now)
Delete(p, A) == \E w \in A.wt, arg \in A.id : DeleteFind(p, w, arg)
Resolve(p, A) ==
    \E w \in A.wt, arg \in A.id, name \in A.author, now \in A.now :
        ResolveFind(p, w, arg, name, now)
Unresolve(p, A) == \E w \in A.wt, arg \in A.id : UnresolveFind(p, w, arg)
List(p, A) ==
    \E w \in A.wt, arg \in A.id, commit \in A.commit, unresolved \in BOOLEAN,
       creator \in A.author, file \in A.file, topLevel \in A.top :
        ListBegin(p, w, arg, commit, unresolved, creator, file, topLevel)
Status(p, A) == \E w \in A.wt : StatusBegin(p, w)
State(p, A) == \E w \in A.wt : StateBegin(p, w)
Finish(p, A) == \E w \in A.wt : FinishBegin(p, w, "finish")
Abort(p, A) == \E w \in A.wt : FinishBegin(p, w, "abort")

Next ==
    \E p \in Procs :
        \/ Start(p, Args)
        \/ StartTx(p)
        \/ JoinInsert(p)
        \/ WorktreeAdd(p)
        \/ JumpCheckout(p)
        \/ JumpReadTree(p)
        \/ JumpUpdate(p)
        \/ GitFail(p)
        \/ NextCmd(p, Args)
        \/ Jump(p, Args)
        \/ StartRollback(p)
        \/ Add(p, Args)
        \/ AddInsert(p)
        \/ Delete(p, Args)
        \/ DeleteReparent(p)
        \/ DeleteRow(p)
        \/ DeleteCommit(p)
        \/ DeleteRollback(p)
        \/ Resolve(p, Args)
        \/ ResolveUpdate(p)
        \/ Unresolve(p, Args)
        \/ UnresolveUpdate(p)
        \/ Finish(p, Args)
        \/ Abort(p, Args)
        \/ FinishNote(p)
        \/ FinishNoteFail(p)
        \/ CleanupWorktrees(p)
        \/ CleanupWorktreesFail(p)
        \/ CleanupCheckout(p)
        \/ CleanupCheckoutFail(p)
        \/ CleanupRemove(p)
        \/ List(p, Args)
        \/ Status(p, Args)
        \/ State(p, Args)

Spec == Init /\ [][Next]_vars

(* ----------------- threads: one reviewer, one command at a time -------- *)
ThreadArgs ==
    [wt |-> {""}, base |-> {History[2]}, role |-> {""}, file |-> {""}, line |-> {<< >>},
     author |-> {""}, msg |-> {"m"}, id |-> IdArgs, now |-> {"t1"}, ids |-> MaxIds]

ThreadNext ==
    \/ Start(1, ThreadArgs)
    \/ StartTx(1)
    \/ JumpCheckout(1)
    \/ JumpReadTree(1)
    \/ JumpUpdate(1)
    \/ Add(1, ThreadArgs)
    \/ AddInsert(1)
    \/ Delete(1, ThreadArgs)
    \/ DeleteReparent(1)
    \/ DeleteRow(1)
    \/ DeleteCommit(1)
    \/ DeleteRollback(1)

ThreadSpec == Init /\ [][ThreadNext]_vars

(* --------------- races: two commands in flight on one store ------------ *)
\* comments are named by their full identifiers; << >> is no --reply-to
RaceArgs ==
    [ThreadArgs EXCEPT !.ids = RaceIds, !.id = {<< >>} \cup {IdOf(k) : k \in 0..(RaceIds - 1)}]

\* delete, resolve and unresolve name their comment by its full identifier
RaceTargetArgs == [RaceArgs EXCEPT !.id = {IdOf(k) : k \in 0..(RaceIds - 1)}]

\* the review is started by process 1; comment commands run in both processes
RaceNext ==
    \/ Start(1, RaceArgs)
    \/ StartTx(1)
    \/ JumpCheckout(1)
    \/ JumpReadTree(1)
    \/ JumpUpdate(1)
    \/ \E p \in Procs :
        \/ Add(p, RaceArgs)
        \/ AddInsert(p)
        \/ Delete(p, RaceTargetArgs)
        \/ DeleteReparent(p)
        \/ DeleteRow(p)
        \/ DeleteCommit(p)
        \/ DeleteRollback(p)
        \/ Resolve(p, RaceTargetArgs)
        \/ ResolveUpdate(p)
        \/ Unresolve(p, RaceTargetArgs)
        \/ UnresolveUpdate(p)

RaceSpec == Init /\ [][RaceNext]_vars


(* ------------- start in two processes at the same time ----------------- *)
\* both invocations run in the main working copy, with or without a base and
\* a role
StartRaceArgs ==
    [wt |-> {""}, base |-> {<< >>, History[1], History[2]}, role |-> {"", "sec"}]

StartRaceNext ==
    \E p \in Procs :
        \/ Start(p, StartRaceArgs)
        \/ StartTx(p)
        \/ JoinInsert(p)
        \/ WorktreeAdd(p)
        \/ JumpCheckout(p)
        \/ JumpReadTree(p)
        \/ JumpUpdate(p)

StartRaceSpec == Init /\ [][StartRaceNext]_vars

(* ------------- references to commits: add, reply, navigation, delete --- *)
RefArgs ==
    [wt |-> {"", "sec"}, base |-> {History[1]}, role |-> {"", "sec"}, hash |-> {History[3]},
     file |-> {""}, line |-> {<< >>}, author |-> {""}, msg |-> {"m"},
     id |-> {<< >>} \cup {IdOf(k) : k \in 0..(AddIds - 1)}, now |-> {"t1"}, ids |-> AddIds]

\* process 1 starts, joins and navigates; process 2 adds, replies and deletes
\* meanwhile, from either working copy
RefNext ==
    \/ Start(1, RefArgs)
    \/ StartTx(1)
    \/ JoinInsert(1)
    \/ WorktreeAdd(1)
    \/ JumpCheckout(1)
    \/ JumpReadTree(1)
    \/ JumpUpdate(1)
    \/ GitFail(1)
    \/ NextCmd(1, RefArgs)
    \/ Jump(1, RefArgs)
    \/ Add(2, RefArgs)
    \/ AddInsert(2)
    \/ Delete(2, [RefArgs EXCEPT !.id = {IdOf(k) : k \in 0..(AddIds - 1)}])
    \/ DeleteReparent(2)
    \/ DeleteRow(2)
    \/ DeleteCommit(2)
    \/ DeleteRollback(2)

RefSpec == Init /\ [][RefNext]_vars

(* ------------- replies from any cursor, deletes, and finish ------------ *)
InheritArgs ==
    [wt |-> {""}, base |-> {History[1]}, role |-> {""}, file |-> {"", "a.go"},
     line |-> {<< >>, <<"7">>}, author |-> {""}, msg |-> {"m"},
     id |-> {<< >>} \cup {IdOf(k) : k \in 0..(ResolveIds - 1)}, now |-> {"t1"},
     ids |-> ResolveIds]

InheritNext ==
    \/ Start(1, InheritArgs)
    \/ StartTx(1)
    \/ JumpCheckout(1)
    \/ JumpReadTree(1)
    \/ JumpUpdate(1)
    \/ NextCmd(1, InheritArgs)
    \/ Add(1, InheritArgs)
    \/ AddInsert(1)
    \/ Delete(1, [InheritArgs EXCEPT !.id = {IdOf(k) : k \in 0..(ResolveIds - 1)}])
    \/ DeleteReparent(1)
    \/ DeleteRow(1)
    \/ DeleteCommit(1)
    \/ DeleteRollback(1)
    \/ Finish(1, InheritArgs)
    \/ FinishNote(1)
    \/ CleanupWorktrees(1)
    \/ CleanupCheckout(1)
    \/ CleanupRemove(1)

InheritSpec == Init /\ [][InheritNext]_vars

(* ------------- resolve in two processes at the same time --------------- *)
\* top-level comments are added by process 1 under the default name
ResolveRaceAddArgs ==
    [wt |-> {""}, base |-> {History[2]}, role |-> {""}, file |-> {""}, line |-> {<< >>},
     author |-> {""}, msg |-> {"m"}, id |-> {<< >>}, now |-> {"t1"}, ids |-> AddIds]

\* resolve and unresolve name the comment in full; each resolve gives a name
\* and reads the clock
ResolveRaceArgs ==
    [ResolveRaceAddArgs EXCEPT !.author = {"ann", "bob"}, !.now = {"t1", "t2"},
                               !.id = {IdOf(k) : k \in 0..(AddIds - 1)}]

ResolveRaceNext ==
    \/ Start(1, ResolveRaceAddArgs)
    \/ StartTx(1)
    \/ JumpCheckout(1)
    \/ JumpReadTree(1)
    \/ JumpUpdate(1)
    \/ Add(1, ResolveRaceAddArgs)
    \/ AddInsert(1)
    \/ \E p \in Procs :
          \/ Resolve(p, ResolveRaceArgs)
          \/ ResolveUpdate(p)
          \/ Unresolve(p, ResolveRaceArgs)
          \/ UnresolveUpdate(p)

ResolveRaceSpec == Init /\ [][ResolveRaceNext]_vars

(* ------------- navigation: several reviewers, one command at a time ---- *)
NavArgs ==
    [wt |-> {"", "sec"}, base |-> {<< >>, History[2], HeadSha, <<"z">>}, role |-> {"", "sec"},
     hash |-> HashArgs]

NavNext ==
    \/ Start(1, NavArgs)
    \/ StartTx(1)
    \/ JoinInsert(1)
    \/ WorktreeAdd(1)
    \/ JumpCheckout(1)
    \/ JumpReadTree(1)
    \/ JumpUpdate(1)
    \/ GitFail(1)
    \/ NextCmd(1, NavArgs)
    \/ Jump(1, NavArgs)
    \/ StartRollback(1)

NavSpec == Init /\ [][NavNext]_vars

(* ------------- navigation: one command at a time, git never fails ------ *)
WalkArgs ==
    [wt |-> {"", "sec"}, base |-> {<< >>, History[1], History[2]}, role |-> {"", "sec"},
     hash |-> {History[k] : k \in 1..Len(History)}]

WalkNext ==
    \/ Start(1, WalkArgs)
    \/ StartTx(1)
    \/ JoinInsert(1)
    \/ WorktreeAdd(1)
    \/ JumpCheckout(1)
    \/ JumpReadTree(1)
    \/ JumpUpdate(1)
    \/ NextCmd(1, WalkArgs)
    \/ Jump(1, WalkArgs)

WalkSpec == Init /\ [][WalkNext]_vars

(* ------------- navigation by two reviewers at the same time ------------ *)
PairArgs == [wt |-> {"", "sec"}, hash |-> {History[2]}]
\* the session is started, and joined, from the main working copy
PairStartArgs == [wt |-> {""}, base |-> {<< >>}, role |-> {"", "sec"}]

PairNext ==
    \/ Start(1, PairStartArgs)
    \/ StartTx(1)
    \/ JoinInsert(1)
    \/ WorktreeAdd(1)
    \/ \E p \in Procs :
          \/ NextCmd(p, PairArgs)
          \/ Jump(p, PairArgs)
          \/ JumpCheckout(p)
          \/ JumpReadTree(p)
          \/ JumpUpdate(p)
          \/ GitFail(p)

PairSpec == Init /\ [][PairNext]_vars

(* ------------- teardown: finish and abort, and a new session ----------- *)
\* comments are added at the cursor, with and without a file, and as replies
\* named by full identifiers
TeardownArgs ==
    [wt |-> {"", "sec"}, base |-> {History[1]}, role |-> {"", "sec"}, file |-> {"", "a.go"},
     line |-> {<< >>}, author |-> {""}, msg |-> {"m"},
     id |-> {<< >>} \cup {IdOf(k) : k \in 0..(FinIds - 1)}, now |-> {"t1"}, ids |-> FinIds]

\* every git call of the teardown succeeds
TeardownNext ==
    \/ Start(1, TeardownArgs)
    \/ StartTx(1)
    \/ JoinInsert(1)
    \/ WorktreeAdd(1)
    \/ JumpCheckout(1)
    \/ JumpReadTree(1)
    \/ JumpUpdate(1)
    \/ NextCmd(1, TeardownArgs)
    \/ Add(1, TeardownArgs)
    \/ AddInsert(1)
    \/ Finish(1, TeardownArgs)
    \/ Abort(1, TeardownArgs)
    \/ FinishNote(1)
    \/ CleanupWorktrees(1)
    \/ CleanupCheckout(1)
    \/ CleanupRemove(1)

TeardownSpec == Init /\ [][TeardownNext]_vars

\* one user who runs every command, with and without a session
AbsentArgs ==
    [wt |-> {"", "sec"}, base |-> {History[2], <<"z">>}, role |-> {"", "sec"}, file |-> {""},
     line |-> {<< >>}, author |-> {""}, msg |-> {"m"}, id |-> {<< >>, IdOf(0)},
     now |-> {"t1"}, hash |-> {History[3]}, commit |-> {<< >>}, top |-> BOOLEAN,
     ids |-> AddIds]

AbsentNext ==
    \/ Start(1, AbsentArgs) \/ StartTx(1) \/ JoinInsert(1) \/ WorktreeAdd(1)
    \/ JumpCheckout(1) \/ JumpReadTree(1) \/ JumpUpdate(1)
    \/ NextCmd(1, AbsentArgs) \/ Jump(1, AbsentArgs)
    \/ Add(1, AbsentArgs) \/ AddInsert(1)
    \/ Delete(1, AbsentArgs) \/ DeleteReparent(1) \/ DeleteRow(1) \/ DeleteCommit(1)
    \/ DeleteRollback(1)
    \/ Resolve(1, AbsentArgs) \/ ResolveUpdate(1)
    \/ Unresolve(1, AbsentArgs) \/ UnresolveUpdate(1)
    \/ List(1, AbsentArgs) \/ Status(1, AbsentArgs) \/ State(1, AbsentArgs)
    \/ Finish(1, AbsentArgs) \/ Abort(1, AbsentArgs)
    \/ FinishNote(1) \/ CleanupWorktrees(1) \/ CleanupCheckout(1) \/ CleanupRemove(1)

AbsentSpec == Init /\ [][AbsentNext]_vars

\* reviewers who navigate and comment while the snapshot is read from either
\* working copy, before, during and after a session
StateArgs ==
    [wt |-> {"", "sec"}, base |-> {History[1], <<"z">>}, role |-> {"", "sec"}, file |-> {""},
     line |-> {<< >>}, author |-> {""}, msg |-> {"m"}, id |-> {<< >>}, now |-> {"t1"},
     ids |-> AddIds]

StateNext ==
    \/ Start(1, StateArgs) \/ StartTx(1) \/ JoinInsert(1) \/ WorktreeAdd(1)
    \/ JumpCheckout(1) \/ JumpReadTree(1) \/ JumpUpdate(1)
    \/ NextCmd(1, StateArgs)
    \/ Add(1, StateArgs) \/ AddInsert(1)
    \/ State(1, StateArgs)
    \/ Abort(1, StateArgs)
    \/ CleanupWorktrees(1) \/ CleanupCheckout(1) \/ CleanupRemove(1)

StateSpec == Init /\ [][StateNext]_vars

\* the rows the k-th comment of a table may have within the schema: a root or a
\* reply to an earlier comment, with its own commit, file, resolution and creator
FilterRows(k) ==
    {r \in [parent : {Null} \cup {Some(IdOf(j)) : j \in 0..(k - 1)},
            commit : {History[1], History[2]},
            file : {Null, Some("a.go")},
            startLine : {Null}, endLine : {Null}, body : {"m"},
            resolvedAt : {Null, Some("t1")}, resolvedBy : {Null, Some("bob")},
            createdAt : {"t1"}, createdBy : {"", "bob"}] :
        r.resolvedAt = Null <=> r.resolvedBy = Null}

\* the comment tables of n comments, made by n inserts
RECURSIVE TablesOf(_)
TablesOf(n) ==
    IF n = 0 THEN {EmptyFn}
    ELSE {InsertComment(t, IdOf(n - 1), r) : t \in TablesOf(n - 1), r \in FilterRows(n - 1)}

\* the comment tables of up to n comments
FilterTables(n) == UNION {TablesOf(k) : k \in 0..n}

\* a session on the whole history with any table of comments
FilterInit ==
    /\ session = {[base_ref |-> MainSha, branch |-> BranchRef]}
    /\ commits = CommitRows(RevList(MainSha))
    /\ reviewers = InsertReviewer(EmptyFn, "", Null)
    /\ comments \in FilterTables(FilterIds)
    /\ wt = [n \in {""} |-> Checkout(BranchRef)]
    /\ nextId = FilterIds
    /\ pc = [p \in Procs |-> "idle"]
    /\ loc = [p \in Procs |-> NoLoc]
    /\ out = NoOut
    /\ db = TRUE
    /\ notes = [c \in HistorySet |-> << >>]

\* the filters of list: a prefix of two commits, a full SHA, a text no SHA
\* begins with; a creator; a file
FilterArgs ==
    [wt |-> {""}, id |-> {<< >>}, commit |-> {<< >>, <<"a">>, History[2], <<"z">>},
     author |-> {"", "bob"}, file |-> {"", "a.go"}, top |-> {FALSE}]

FilterNext == List(1, FilterArgs)

FilterSpec == FilterInit /\ [][FilterNext]_vars

\* one user who starts, comments and ends sessions while single git commands of
\* finish and abort fail
TeardownFailArgs ==
    [wt |-> {"", "sec"}, base |-> {History[1]}, role |-> {"", "sec"}, file |-> {""},
     line |-> {<< >>}, author |-> {""}, msg |-> {"m"}, id |-> {<< >>}, now |-> {"t1"},
     ids |-> AddIds]

\* the steps of a finish or abort that was admitted
TeardownStep ==
    \/ FinishNote(1) \/ FinishNoteFail(1)
    \/ CleanupWorktrees(1) \/ CleanupWorktreesFail(1)
    \/ CleanupCheckout(1) \/ CleanupCheckoutFail(1)
    \/ CleanupRemove(1)

TeardownFailNext ==
    \/ Start(1, TeardownFailArgs) \/ StartTx(1) \/ JoinInsert(1) \/ WorktreeAdd(1)
    \/ JumpCheckout(1) \/ JumpReadTree(1) \/ JumpUpdate(1)
    \/ NextCmd(1, TeardownFailArgs)
    \/ Add(1, TeardownFailArgs) \/ AddInsert(1)
    \/ Finish(1, TeardownFailArgs) \/ Abort(1, TeardownFailArgs)
    \/ TeardownStep

\* a command that was admitted runs to its end: finishReview and cleanupReview
\* are straight-line code without a wait
TeardownFailSpec == Init /\ [][TeardownFailNext]_vars /\ WF_vars(TeardownStep)

(* ------------- thread lookup: list <id> on threads made by add and delete *)
LookupArgs ==
    [wt |-> {""}, base |-> {History[2]}, role |-> {""}, file |-> {""}, line |-> {<< >>},
     author |-> {""}, msg |-> {"m"}, id |-> {<< >>} \cup {IdOf(k) : k \in 0..(ResolveIds - 1)},
     now |-> {"t1"}, commit |-> {<< >>}, top |-> {FALSE}, ids |-> ResolveIds]

LookupNext ==
    \/ Start(1, LookupArgs)
    \/ StartTx(1)
    \/ JumpCheckout(1)
    \/ JumpReadTree(1)
    \/ JumpUpdate(1)
    \/ Add(1, LookupArgs)
    \/ AddInsert(1)
    \/ Delete(1, LookupArgs)
    \/ DeleteReparent(1)
    \/ DeleteRow(1)
    \/ DeleteCommit(1)
    \/ DeleteRollback(1)
    \/ List(1, LookupArgs)

LookupSpec == Init /\ [][LookupNext]_vars

(* ------------- line ranges: add -l with well and ill formed arguments --- *)
\* the -l arguments: none, one line, ranges in and out of order, a signed
\* number, and texts that are no number or no pair of numbers
LineInputs ==
    {<< >>, <<"7">>, <<"1", ",", "2">>, <<"2", ",", "2">>, <<"2", ",", "1">>, <<"-", "1">>,
     <<"x">>, <<"1", ",">>, <<",", "1">>, <<"1", ",", "x">>, <<"1", ",", "2", ",", "3">>}

LineArgs ==
    [wt |-> {""}, base |-> {History[2]}, role |-> {""}, file |-> {"a.go"}, line |-> LineInputs,
     author |-> {""}, msg |-> {"m"}, id |-> {<< >>, IdOf(0)}, now |-> {"t1"}, ids |-> AddIds]

LineNext ==
    \/ Start(1, LineArgs)
    \/ StartTx(1)
    \/ JumpCheckout(1)
    \/ JumpReadTree(1)
    \/ JumpUpdate(1)
    \/ Add(1, LineArgs)
    \/ AddInsert(1)

LineSpec == Init /\ [][LineNext]_vars

(* ------------- add: several reviewers at their cursors ----------------- *)
AddArgs ==
    [wt |-> {"", "sec"}, base |-> {History[1]}, role |-> {"", "sec"},
     file |-> {"", "a.go"}, line |-> {<< >>, <<"1", ",", "2">>, <<"2", ",", "1">>},
     author |-> {"", "bob"}, msg |-> {"m"}, id |-> IdArgs, now |-> {"t1"}, ids |-> AddIds]

AddNext ==
    \/ Start(1, AddArgs)
    \/ StartTx(1)
    \/ JoinInsert(1)
    \/ WorktreeAdd(1)
    \/ JumpCheckout(1)
    \/ JumpReadTree(1)
    \/ JumpUpdate(1)
    \/ GitFail(1)
    \/ NextCmd(1, AddArgs)
    \/ Add(1, AddArgs)
    \/ AddInsert(1)

AddSpec == Init /\ [][AddNext]_vars

(* ------------- add at the cursor: top-level comments only -------------- *)
RootAddArgs ==
    [AddArgs EXCEPT !.file = {""}, !.line = {<< >>, <<"2", ",", "1">>}, !.id = {<< >>}]

RootAddNext ==
    \/ Start(1, RootAddArgs)
    \/ StartTx(1)
    \/ JoinInsert(1)
    \/ WorktreeAdd(1)
    \/ JumpCheckout(1)
    \/ JumpReadTree(1)
    \/ JumpUpdate(1)
    \/ GitFail(1)
    \/ NextCmd(1, RootAddArgs)
    \/ Add(1, RootAddArgs)
    \/ AddInsert(1)

RootAddSpec == Init /\ [][RootAddNext]_vars

(* ------------- resolve: threads and their resolution ------------------- *)
ResolveArgs ==
    [wt |-> {"", "sec"}, base |-> {History[2]}, role |-> {"", "sec"}, file |-> {""},
     line |-> {<< >>}, author |-> {"", "bob"}, msg |-> {"m"}, id |-> IdArgs,
     now |-> {"t1"}, ids |-> ResolveIds]
\* comments are added from the main working copy under the default name
ResolveAddArgs == [ResolveArgs EXCEPT !.wt = {""}, !.author = {""}]

ResolveNext ==
    \/ Start(1, ResolveArgs)
    \/ StartTx(1)
    \/ JoinInsert(1)
    \/ WorktreeAdd(1)
    \/ JumpCheckout(1)
    \/ JumpReadTree(1)
    \/ JumpUpdate(1)
    \/ Add(1, ResolveAddArgs)
    \/ AddInsert(1)
    \/ Delete(1, ResolveAddArgs)
    \/ DeleteReparent(1)
    \/ DeleteRow(1)
    \/ DeleteCommit(1)
    \/ DeleteRollback(1)
    \/ Resolve(1, ResolveArgs)
    \/ ResolveUpdate(1)
    \/ Unresolve(1, ResolveArgs)
    \/ UnresolveUpdate(1)

ResolveSpec == Init /\ [][ResolveNext]_vars

(* ========================= properties of threads ======================= *)
\* the root reached from id by at most n parent links; Null when a link leads
\* to no stored comment or no root is reached
RECURSIVE Climb(_, _, _)
Climb(tbl, id, n) ==
    IF id \notin DOMAIN tbl THEN Null
    ELSE IF tbl[id].parent = Null THEN Some(id)
    ELSE IF n = 0 THEN Null
    ELSE Climb(tbl, Val(tbl[id].parent), n - 1)

RootOf(tbl, id) == Climb(tbl, id, Cardinality(DOMAIN tbl))

\* the comments whose parent chain passes through id (id included)
RECURSIVE Passes(_, _, _, _)
Passes(tbl, i, id, n) ==
    \/ i = id
    \/ /\ n > 0
       /\ tbl[i].parent # Null
       /\ Val(tbl[i].parent) \in DOMAIN tbl
       /\ Passes(tbl, Val(tbl[i].parent), id, n - 1)

Subtree(tbl, id) == {i \in DOMAIN tbl : Passes(tbl, i, id, Cardinality(DOMAIN tbl))}

\* a command ended without success
Failed(o) == o.res \notin {"ok", "ok_status", "ok_all_reviewed"}

\* the step in which process p's delete commits
DeleteDone(p) == pc[p] = "del_commit" /\ pc'[p] = "idle" /\ out'.cmd = "delete" /\ out'.res = "ok"

\* C1: deleting a root removes the root and every comment whose parent chain
\* passed through it, whatever the depth and shape of the thread, and every
\* comment of every other thread is still stored, unchanged.
C1_RootDeleteRemovesThread ==
    [][(DeleteDone(1) /\ comments[loc[1].target].parent = Null) =>
          LET thread == Subtree(comments, loc[1].target)
          IN  /\ DOMAIN comments' = DOMAIN comments \ thread
              /\ \A i \in DOMAIN comments' : RootOf(comments, i) # Some(loc[1].target)
              /\ \A i \in DOMAIN comments \ thread : comments'[i] = comments[i]]_vars

\* a root with a reply and a reply to the reply was deleted; another thread remains
C1_Witness ==
    /\ out.cmd = "delete" /\ out.res = "ok" /\ out.root /\ out.removed = 3
    /\ \E i \in DOMAIN comments : comments[i].parent = Null

\* C2: deleting a non-root X removes exactly X; each direct child of X gets X's
\* former parent (never null) as its parent; every other comment survives
\* unchanged, and every surviving comment reaches the same root as before.
C2_NonRootDeleteReparents ==
    [][(DeleteDone(1) /\ comments[loc[1].target].parent # Null) =>
          LET x == loc[1].target
              px == comments[x].parent
          IN  /\ DOMAIN comments' = DOMAIN comments \ {x}
              /\ \A i \in DOMAIN comments' :
                    /\ comments[i].parent = Some(x) =>
                          /\ comments'[i] = [comments[i] EXCEPT !.parent = px]
                          /\ comments'[i].parent # Null
                    /\ comments[i].parent # Some(x) => comments'[i] = comments[i]
                    /\ RootOf(comments', i) # Null
                    /\ RootOf(comments', i) = RootOf(comments, i)]_vars

\* a reply that had replies of its own was deleted, and its replies moved up
C2_Witness ==
    /\ out.cmd = "delete" /\ out.res = "ok" /\ ~out.root
    /\ out.removed = 1 /\ out.moved >= 1
    /\ \E i \in DOMAIN comments : comments[i].parent # Null

\* every parent link names a stored comment
NoDangling(tbl) ==
    \A i \in DOMAIN tbl : tbl[i].parent # Null => Val(tbl[i].parent) \in DOMAIN tbl

\* every chain of parent links ends, without a cycle, at a stored root
Forest(tbl) == NoDangling(tbl) /\ \A i \in DOMAIN tbl : RootOf(tbl, i) # Null

\* C3: under every interleaving of add, reply, delete, resolve and unresolve the
\* comments form a forest (every parent id names a stored comment, every parent
\* chain ends at a root without a cycle), and no step turns a root into a
\* non-root or a non-root into a root.
C3_ForestUnderInterleaving ==
    /\ []Forest(comments)
    /\ [][\A i \in DOMAIN comments \cap DOMAIN comments' :
             (comments'[i].parent = Null) <=> (comments[i].parent = Null)]_vars

\* a delete committed while another process's reply to the deleted comment was
\* waiting to be inserted, and the deleted comment was itself a reply
C3_Witness ==
    /\ out.cmd = "delete" /\ out.res = "ok"
    /\ \E p \in Procs :
          /\ pc[p] = "add_insert"
          /\ loc[p].row.parent # Null
          /\ Val(loc[p].row.parent) \notin DOMAIN comments
    /\ ~out.root /\ DOMAIN comments # {}

\* C4: the re-parent step and the delete step of delete land together or not at
\* all: a parent link changes only in the step that also removes the old parent,
\* no step leaves a link to a comment that is gone, the store changes in no step
\* of a delete but its commit, and a delete that fails leaves the store as it was.
C4_DeleteAtomic ==
    [][/\ \A i \in DOMAIN comments \cap DOMAIN comments' :
             comments'[i].parent # comments[i].parent =>
                Val(comments[i].parent) \notin DOMAIN comments'
       /\ NoDangling(comments')
       /\ \A p \in Procs :
             (pc[p] \in TxPcs /\ pc'[p] # pc[p]) =>
                IF DeleteDone(p)
                THEN /\ loc[p].target \notin DOMAIN comments'
                     /\ \A i \in DOMAIN comments' : comments'[i].parent # Some(loc[p].target)
                ELSE /\ store' = store
                     /\ pc'[p] = "idle" => out'.cmd = "delete" /\ Failed(out')]_vars

\* a delete of a reply that has replies failed after its re-parenting was
\* written in the transaction; the reply and its replies are stored as before
C4_Witness ==
    /\ out.cmd = "delete" /\ out.res = "err_tx" /\ out.undone
    /\ \E i, j \in DOMAIN comments : comments[i].parent # Null /\ comments[j].parent = Some(i)

(* ======================= properties of resolution ====================== *)
\* the names resolve can record: the -a argument, or the working copy's reviewer
ResolverName(l) == IF l.name = "" THEN l.w ELSE l.name

\* C5: resolve fails and changes no comment when its target is a non-root or a
\* root already resolved; on an unresolved root it succeeds and sets resolved-at
\* and resolved-by (the given name, or the calling working copy's reviewer
\* name) in one write that changes nothing else.
C5_ResolveContract ==
    [][/\ (pc[1] = "idle" /\ pc'[1] = "resolve_update") =>
             LET t == loc'[1].target
             IN  /\ t \in DOMAIN comments
                 /\ comments[t].parent = Null
                 /\ comments[t].resolvedAt = Null /\ comments[t].resolvedBy = Null
                 /\ loc'[1].arg \in DOMAIN comments => t = loc'[1].arg
       /\ (pc[1] = "idle" /\ pc'[1] = "idle" /\ out'.cmd = "resolve") =>
             Failed(out') /\ comments' = comments
       /\ (pc[1] = "resolve_update" /\ pc'[1] = "idle") =>
             LET t == loc[1].target
             IN  /\ out' = [cmd |-> "resolve", res |-> "ok"]
                 /\ comments[t].parent = Null /\ comments[t].resolvedAt = Null
                 /\ comments' = [comments EXCEPT
                                   ![t] = [comments[t] EXCEPT
                                             !.resolvedAt = Some(loc[1].at),
                                             !.resolvedBy = Some(ResolverName(loc[1]))]]]_vars

\* a root with a reply was resolved from the working copy "sec" with no name
\* given, and carries that working copy's reviewer name
C5_Witness ==
    /\ out = [cmd |-> "resolve", res |-> "ok"]
    /\ \E i, j \in DOMAIN comments :
          /\ comments[i].parent = Null /\ comments[j].parent = Some(i)
          /\ comments[i].resolvedAt # Null /\ comments[i].resolvedBy = Some("sec")

\* both resolution fields null or both set, and both null on a non-root
ResolutionWellFormed(tbl) ==
    \A i \in DOMAIN tbl :
        /\ (tbl[i].resolvedAt = Null) <=> (tbl[i].resolvedBy = Null)
        /\ tbl[i].parent # Null => tbl[i].resolvedAt = Null /\ tbl[i].resolvedBy = Null

\* the step in which process p's add stores its comment
AddDone(p) == pc[p] = "add_insert" /\ pc'[p] = "idle" /\ out'.cmd = "add" /\ out'.res = "ok"

\* C6: in every reachable state each comment's resolved-at and resolved-by are
\* both null or both set, and both null on every non-root; a step that adds or
\* deletes a reply keeps the thread's root, and no add or delete changes the
\* resolution fields of a root that stays.
C6_ResolutionFields ==
    /\ []ResolutionWellFormed(comments)
    /\ [][(AddDone(1) \/ DeleteDone(1)) =>
             /\ \A i \in DOMAIN comments \cap DOMAIN comments' :
                   comments[i].parent = Null =>
                      /\ comments'[i].resolvedAt = comments[i].resolvedAt
                      /\ comments'[i].resolvedBy = comments[i].resolvedBy
             /\ (AddDone(1) /\ loc[1].row.parent # Null) =>
                   RootOf(comments', loc[1].id) = RootOf(comments, Val(loc[1].row.parent))
             /\ (DeleteDone(1) /\ comments[loc[1].target].parent # Null) =>
                   Val(RootOf(comments, loc[1].target)) \in DOMAIN comments']_vars

\* the newest comment is a reply just added to a thread whose root is resolved
C6_Witness ==
    /\ out = [cmd |-> "add", res |-> "ok"]
    /\ nextId > 0 /\ IdOf(nextId - 1) \in DOMAIN comments
    /\ comments[IdOf(nextId - 1)].parent # Null
    /\ comments[Val(RootOf(comments, IdOf(nextId - 1)))].resolvedBy # Null

\* the names and times a resolve can record in this specification
ResolveNames == ResolveArgs.author \cup ResolveArgs.wt

\* C7: unresolve on a resolved root clears both resolution fields and changes
\* nothing else, so resolve followed by unresolve on the same root restores every
\* field of every comment; unresolve on a root that is not resolved, or on a
\* non-root, fails and changes nothing.
C7_UnresolveRoundTrip ==
    /\ [](\A r \in DOMAIN comments, by \in ResolveNames, at \in ResolveArgs.now :
             (comments[r].parent = Null /\ comments[r].resolvedAt = Null) =>
                /\ ResolveComment(comments, Some(at), Some(by), r) # comments
                /\ UnresolveComment(ResolveComment(comments, Some(at), Some(by), r), r) = comments)
    /\ [][/\ (pc[1] = "idle" /\ pc'[1] = "unresolve_update") =>
                LET t == loc'[1].target
                IN  /\ t \in DOMAIN comments
                    /\ comments[t].parent = Null /\ comments[t].resolvedAt # Null
                    /\ loc'[1].arg \in DOMAIN comments => t = loc'[1].arg
          /\ (pc[1] = "idle" /\ pc'[1] = "idle" /\ out'.cmd = "unresolve") =>
                Failed(out') /\ comments' = comments
          /\ (pc[1] = "unresolve_update" /\ pc'[1] = "idle") =>
                LET t == loc[1].target
                IN  /\ out' = [cmd |-> "unresolve", res |-> "ok"]
                    /\ comments'[t].resolvedAt = Null /\ comments'[t].resolvedBy = Null
                    /\ comments' = [comments EXCEPT
                                      ![t] = [comments[t] EXCEPT !.resolvedAt = Null,
                                                                   !.resolvedBy = Null]]
          /\ (pc[1] = "resolve_update" /\ pc'[1] = "idle") =>
                comments = [comments' EXCEPT
                               ![loc[1].target] = [comments'[loc[1].target] EXCEPT
                                                     !.resolvedAt = Null, !.resolvedBy = Null]]]_vars

\* a root with a reply was resolved and then unresolved, and is unresolved again
C7_Witness ==
    /\ out = [cmd |-> "unresolve", res |-> "ok"]
    /\ \E i, j \in DOMAIN comments :
          /\ comments[i].parent = Null /\ comments[j].parent = Some(i)
          /\ comments[i].resolvedAt = Null /\ comments[i].resolvedBy = Null

(* ======================= properties of navigation ====================== *)
\* the position of the commit a cursor names
PositionOf(cursor) == (CHOOSE r \in commits : r.sha = Val(cursor)).position

\* position 0 for a reviewer without a cursor, else the cursor's position + 1
TargetOf(w) == IF reviewers[w] = Null THEN 0 ELSE PositionOf(reviewers[w]) + 1

Idle == pc[1] = "idle"
\* an add without --reply-to ended before it stored anything
RootAddEnded ==
    /\ Idle /\ pc'[1] = "idle" /\ out'.cmd = "add"
    /\ out'.res \in {"err_get_reviewer", "err_no_commit", "err_line_range"}
\* the reviewer of working copy w has a row and a cursor
HasCursor(w) == w \in DOMAIN reviewers /\ reviewers[w] # Null

\* what holds of every add without --reply-to: it goes on to store only with a
\* cursor, a failure stores nothing, and the insert stores exactly one new
\* unresolved root at the cursor of the calling working copy's reviewer
RootAddStores ==
    /\ (Idle /\ pc'[1] = "add_insert" /\ loc'[1].replyTo = << >>) => HasCursor(loc'[1].w)
    /\ RootAddEnded => comments' = comments
    /\ (pc[1] = "add_insert" /\ pc'[1] = "idle" /\ loc[1].replyTo = << >>) =>
          /\ out' = [cmd |-> "add", res |-> "ok"]
          /\ loc[1].id \notin DOMAIN comments
          /\ DOMAIN comments' = DOMAIN comments \cup {loc[1].id}
          /\ \A i \in DOMAIN comments : comments'[i] = comments[i]
          /\ comments'[loc[1].id].parent = Null
          /\ comments'[loc[1].id].resolvedAt = Null /\ comments'[loc[1].id].resolvedBy = Null
          /\ HasCursor(loc[1].w)
          /\ comments'[loc[1].id].commit = Val(reviewers[loc[1].w])

\* C8 as stated: a non-reply add from working copy W fails and stores nothing
\* when W's reviewer has no cursor or no row; otherwise it stores exactly one new
\* unresolved root whose commit is the cursor of W's reviewer, whatever the
\* author name and the other reviewers' cursors.
C8_AsStated ==
    [][/\ RootAddStores
       /\ RootAddEnded => ~HasCursor(out'.w)]_vars

\* C8: a non-reply add from working copy W fails and stores nothing when W's
\* reviewer has no cursor or no row, or when the -l argument is no line range;
\* otherwise it stores exactly one new unresolved root whose commit is the
\* cursor of W's reviewer, whatever the author name and the other cursors.
C8_RootAddAtCursor ==
    [][/\ RootAddStores
       /\ RootAddEnded =>
             \/ ~HasCursor(out'.w)
             \/ out'.res = "err_line_range" /\ ~parseLineRange(out'.range).ok]_vars

\* the newest comment is a root by author "bob", added from "sec" at the cursor
\* of "sec" while the main reviewer's cursor is at another commit
C8_Witness ==
    /\ out = [cmd |-> "add", res |-> "ok"]
    /\ nextId > 0 /\ IdOf(nextId - 1) \in DOMAIN comments
    /\ comments[IdOf(nextId - 1)].parent = Null
    /\ comments[IdOf(nextId - 1)].createdBy = "bob"
    /\ HasCursor("") /\ HasCursor("sec") /\ reviewers[""] # reviewers["sec"]
    /\ comments[IdOf(nextId - 1)].commit = Val(reviewers["sec"])

\* C9 as stated: a reply add stores one new comment whose parent is the comment
\* the id or prefix names and whose commit, file, start line and end line are
\* the parent's, with or without a cursor of the replier; when the id or prefix
\* matches no comment the add fails and stores nothing.
C9_AsStated ==
    [][/\ (Idle /\ pc'[1] = "add_insert" /\ loc'[1].replyTo # << >>) =>
             \E id \in DOMAIN comments : IsPrefix(loc'[1].replyTo, id)
       /\ (Idle /\ pc'[1] = "idle" /\ out'.cmd = "add" /\ out'.res = "err_not_found") =>
             /\ comments' = comments
             /\ \A id \in DOMAIN comments : ~IsPrefix(out'.id, id)
       /\ (pc[1] = "add_insert" /\ pc'[1] = "idle" /\ loc[1].replyTo # << >>) =>
             /\ out' = [cmd |-> "add", res |-> "ok"]
             /\ loc[1].id \notin DOMAIN comments
             /\ DOMAIN comments' = DOMAIN comments \cup {loc[1].id}
             /\ \A i \in DOMAIN comments : comments'[i] = comments[i]
             /\ \E parent \in DOMAIN comments :
                   /\ comments'[loc[1].id].parent = Some(parent)
                   /\ comments'[loc[1].id].commit = comments[parent].commit
                   /\ comments'[loc[1].id].file = comments[parent].file
                   /\ comments'[loc[1].id].startLine = comments[parent].startLine
                   /\ comments'[loc[1].id].endLine = comments[parent].endLine]_vars

\* a reply is about to be stored under a comment whose id does not begin with
\* the --reply-to argument
C9_Witness ==
    /\ pc[1] = "add_insert" /\ loc[1].replyTo # << >>
    /\ \A id \in DOMAIN comments : ~IsPrefix(loc[1].replyTo, id)
    /\ Val(loc[1].row.parent) \in DOMAIN comments

(* ==================== properties of identifier lookup ================== *)
\* the commits whose SHA begins with the text
CommitsWithPrefix(hash) == {r \in commits : IsPrefix(hash, r.sha)}
\* the stored comments whose id begins with the text
CommentsWithPrefix(arg) == {id \in DOMAIN comments : IsPrefix(arg, id)}

\* C11 as stated: jump goes on only when the text is the SHA or a prefix of
\* exactly one commit of the list, and then to that commit; when it matches no
\* commit or two or more, jump fails with NotFound and changes neither a cursor
\* nor a working copy.
C11_AsStated ==
    [][/\ (Idle /\ pc'[1] = "jump_checkout" /\ loc'[1].cmd = "jump") =>
             CommitsWithPrefix(loc'[1].hash) = {Val(loc'[1].target)}
       /\ (Idle /\ pc'[1] = "idle" /\ out'.cmd = "jump" /\ out'.res = "err_not_found") =>
             /\ CommitsWithPrefix(out'.hash) = {}
             /\ reviewers' = reviewers /\ wt' = wt]_vars

\* a jump given a prefix of two commits has moved the working copy to one of
\* them and is about to store it as the cursor
C11_Witness ==
    /\ pc[1] = "jump_update" /\ loc[1].cmd = "jump"
    /\ loc[1].hash # << >>
    /\ Cardinality(CommitsWithPrefix(loc[1].hash)) >= 2
    /\ wt[loc[1].w].index = Val(loc[1].target).sha

\* C12 as stated (for delete): the command acts only when the text is the id or
\* a prefix of exactly one stored comment, and then on that comment; a prefix of
\* two or more comments, like a prefix of none, makes it fail and change nothing.
C12_AsStated ==
    [][/\ (Idle /\ pc'[1] \in TxPcs) => CommentsWithPrefix(loc'[1].arg) = {loc'[1].target}
       /\ (Idle /\ pc'[1] = "idle" /\ out'.cmd = "delete") =>
             Failed(out') /\ comments' = comments
       /\ DeleteDone(1) =>
             /\ CommentsWithPrefix(loc[1].arg) = {loc[1].target}
             /\ loc[1].target \notin DOMAIN comments']_vars

\* a delete given a prefix of two or more stored comments has deleted one of
\* them in its transaction and is about to commit
C12_Witness ==
    /\ pc[1] = "del_commit"
    /\ loc[1].arg # << >>
    /\ loc[1].target \in CommentsWithPrefix(loc[1].arg)
    /\ Cardinality(CommentsWithPrefix(loc[1].arg)) >= 2
    /\ loc[1].target \notin DOMAIN loc[1].tx

(* ================= properties of the navigation protocol =============== *)
\* the step in which process p's navigation stores the cursor and succeeds
JumpDone(p) == pc[p] = "jump_update" /\ pc'[p] = "idle" /\ out'.res = "ok"

\* the point before the commit at position pos: the session base for 0
PointBefore(pos) ==
    IF pos = 0 THEN (CHOOSE x \in session : TRUE).base_ref
    ELSE (CHOOSE r \in commits : r.position = pos - 1).sha

C14_AsStated ==
    [][(JumpDone(1) /\ loc[1].cmd \in {"next", "jump"}) =>
          /\ loc[1].w \in DOMAIN reviewers'
          /\ reviewers'[loc[1].w] = Some(Val(loc[1].target).sha)]_vars

\* a jump from the main working copy succeeded and moved it to a commit of the
\* list, but the main working copy has no Reviewer row
C14_Witness ==
    /\ out = [cmd |-> "jump", res |-> "ok"]
    /\ "" \notin DOMAIN reviewers
    /\ \E r \in commits : wt[""].index = r.sha /\ wt[""].head = PointBefore(r.position)

\* C15: when the checkout step or the index-overlay step of a navigation fails
\* the call fails and every cursor keeps its value; a cursor is written only
\* in the step after both git steps, with the working copy at the target.
C15_CursorAfterGit ==
    [][/\ (pc[1] \in {"jump_checkout", "jump_readtree"} /\ pc'[1] = "idle") =>
             Failed(out') /\ store' = store
       /\ reviewers' # reviewers =>
             \/ pc[1] \in {"start_tx", "join_insert"}
             \/ /\ pc[1] = "jump_update"
                /\ wt[loc[1].w].head = PointBefore(Val(loc[1].target).position)
                /\ wt[loc[1].w].index = Val(loc[1].target).sha
                /\ wt' = wt]_vars

\* a next failed in git after its checkout: the working copy stands at the
\* commit the cursor names, and the cursor is unchanged
C15_Witness ==
    /\ out = [cmd |-> "next", res |-> "err_git"]
    /\ \E w \in DOMAIN wt :
          /\ HasCursor(w)
          /\ wt[w].head = Val(reviewers[w])
          /\ wt[w].index = wt[w].head

\* the steps of a next or jump of process p after its first
Navigating(p) ==
    /\ pc[p] \in {"jump_checkout", "jump_readtree", "jump_update"}
    /\ loc[p].cmd \in {"next", "jump"}
    /\ pc'[p] # pc[p]

\* C16: for two distinct reviewers and any interleaving of their next and jump
\* calls, a navigation from working copy W changes only the cursor of the
\* reviewer named after W and only W itself; its first step changes nothing.
C16_NavigationIsolated ==
    [][\A p \in Procs :
          /\ Navigating(p) =>
                /\ loc[p].reviewer = loc[p].w
                /\ DOMAIN reviewers' = DOMAIN reviewers /\ DOMAIN wt' = DOMAIN wt
                /\ \A n \in DOMAIN reviewers \ {loc[p].w} : reviewers'[n] = reviewers[n]
                /\ \A n \in DOMAIN wt \ {loc[p].w} : wt'[n] = wt[n]
          /\ (pc[p] = "idle" /\ pc'[p] = "jump_checkout" /\ loc'[p].cmd \in {"next", "jump"}) =>
                reviewers' = reviewers /\ wt' = wt
          /\ (pc' = pc /\ out' # out /\ out'.cmd \in {"next", "jump"}) =>
                reviewers' = reviewers /\ wt' = wt]_vars

\* both reviewers are in the middle of a navigation, each in its own working
\* copy, while their cursors rest at different positions
C16_Witness ==
    /\ Navigating(1)!1 /\ Navigating(2)!1
    /\ loc[1].cmd \in {"next", "jump"} /\ loc[2].cmd \in {"next", "jump"}
    /\ loc[1].w # loc[2].w
    /\ HasCursor("") /\ HasCursor("sec")
    /\ PositionOf(reviewers[""]) # PositionOf(reviewers["sec"])
    /\ wt[""].index # wt["sec"].index

(* ================= properties of the session bootstrap ================= *)
\* the commits after the session base up to HEAD
AfterBase ==
    LET b == (CHOOSE x \in session : TRUE).base_ref
    IN  {History[i] : i \in {j \in 1..Len(History) : b \in HistorySet => j > HistoryPos(b)}}

\* positions 0..n-1 with n >= 1, one commit each, oldest first, and the commits
\* are those between base and HEAD
CommitsInOrder ==
    LET n == Cardinality(commits)
    IN  /\ n >= 1
        /\ {r.position : r \in commits} = 0..(n - 1)
        /\ \A r1, r2 \in commits : r1.position = r2.position => r1 = r2
        /\ \A r1, r2 \in commits :
              r1.position < r2.position <=> HistoryPos(r1.sha) < HistoryPos(r2.sha)
        /\ {r.sha : r \in commits} = AfterBase

\* C17: while a session is active the stored commit positions are exactly
\* 0..n-1 with n >= 1, each held by one commit, in the oldest-first order of
\* the commits between base and HEAD, and no step of a command that leaves the
\* session in place adds, removes or reorders commits.
C17_CommitList ==
    /\ [](requireActive => CommitsInOrder)
    /\ [][(session # {} /\ session' # {}) => commits' = commits /\ session' = session]_vars

\* a session over all three commits, after a jump and with reviewer "sec" at
\* the last of them
C17_Witness ==
    /\ requireActive /\ Cardinality(commits) = Len(History)
    /\ out = [cmd |-> "jump", res |-> "ok"]
    /\ HasCursor("sec") /\ PositionOf(reviewers["sec"]) = Len(History) - 1

\* C18: the store bootstrap of start is all-or-nothing: it leaves the session
\* row, all commit rows and the first reviewer row, or it fails and leaves none
\* of them with the session still absent; a session row never exists without
\* commits, nor commits without a session row.
C18_BootstrapAtomic ==
    /\ []((session = {}) <=> (commits = {}))
    /\ [](session = {} => DOMAIN reviewers = {})
    /\ [][pc[1] = "start_tx" =>
             IF pc'[1] = "idle"
             THEN Failed(out') /\ store' = store /\ ~requireActive'
             ELSE /\ session' = {[base_ref |-> loc[1].base, branch |-> BranchRef]}
                  /\ {r.sha : r \in commits'} = {loc[1].shas[i] : i \in 1..Len(loc[1].shas)}
                  /\ DOMAIN reviewers' = {loc[1].reviewer}
                  /\ reviewers'[loc[1].reviewer] = Null]_vars

\* a start whose bootstrap failed: no session, no commit, no reviewer
C18_Witness ==
    /\ out = [cmd |-> "start", res |-> "err_init"]
    /\ session = {} /\ commits = {} /\ DOMAIN reviewers = {}

(* ================= properties of start on an active session ============ *)
\* tbl2 is tbl with at most the entry of name added or changed
OnlyEntry(tbl, tbl2, name) ==
    /\ DOMAIN tbl \subseteq DOMAIN tbl2 /\ DOMAIN tbl2 \subseteq DOMAIN tbl \cup {name}
    /\ \A n \in DOMAIN tbl \ {name} : tbl2[n] = tbl[n]

\* the role name of the join process 1 is in
JoinName == IF pc[1] \in {"join_insert", "start_worktree"} THEN loc[1].name ELSE loc[1].reviewer

\* C19: start on an active session never changes the session row or the commit
\* list: without role and base it succeeds as a read-only status, with a base
\* and no role it fails with SessionAlreadyActive and changes nothing, and with
\* a role it joins, adding only that reviewer's row and working copy.
C19_StartOnActive ==
    [][requireActive =>
          /\ (pc' = pc /\ out' # out /\ out'.cmd = "start") =>
                /\ out'.name = ""
                /\ out'.res = IF out'.base = << >> THEN "ok_status" ELSE "err_review_active"
                /\ store' = store /\ wt' = wt
          /\ (Idle /\ pc'[1] = "join_insert") =>
                loc'[1].name # "" /\ store' = store /\ wt' = wt
          /\ (~Idle /\ loc[1].cmd = "join") =>
                /\ session' = session /\ commits' = commits /\ comments' = comments
                /\ OnlyEntry(reviewers, reviewers', JoinName)
                /\ OnlyEntry(wt, wt', JoinName)
          /\ (pc[1] = "jump_update" /\ loc[1].cmd = "join" /\ pc'[1] = "idle" /\ out'.res = "ok") =>
                /\ JoinName \in DOMAIN wt' /\ JoinName \in DOMAIN reviewers'
                /\ reviewers'[JoinName] = Some(Val(GetCommitByPosition(0)).sha)]_vars

\* "sec" has joined a session whose first reviewer had gone on to a later
\* commit: both have their row, cursor and working copy
C19_Witness ==
    /\ out = [cmd |-> "join", res |-> "ok"]
    /\ HasCursor("") /\ PositionOf(reviewers[""]) > 0
    /\ HasCursor("sec") /\ PositionOf(reviewers["sec"]) = 0
    /\ "sec" \in DOMAIN wt /\ wt["sec"].index = Val(reviewers["sec"])

\* C20: reviewer names are unique: a start with a role name that already has a
\* row fails and leaves that reviewer's cursor and working copy and every
\* other row unchanged.
C20_RoleNameTaken ==
    [][(pc[1] = "join_insert" /\ loc[1].name \in DOMAIN reviewers) =>
          /\ pc'[1] = "idle" /\ Failed(out')
          /\ store' = store /\ wt' = wt]_vars

\* a second start -a sec failed while "sec" rests at a later commit in its
\* working copy
C20_Witness ==
    /\ out = [cmd |-> "join", res |-> "err_add_reviewer"]
    /\ HasCursor("sec") /\ PositionOf(reviewers["sec"]) > 0
    /\ "sec" \in DOMAIN wt /\ wt["sec"].index = Val(reviewers["sec"])

(* ================= properties of the delete of a middle comment ======== *)
\* the direct children of id
Children(tbl, id) == {i \in DOMAIN tbl : tbl[i].parent = Some(id)}

\* the step in which a delete of a non-root with exactly one child commits
MiddleDeleteDone ==
    /\ DeleteDone(1)
    /\ comments[loc[1].target].parent # Null
    /\ Cardinality(Children(comments, loc[1].target)) = 1

\* what holds of every such delete: the child has the deleted comment's parent,
\* the root of the thread is the same comment, unchanged
MiddleDeleteMoves ==
    LET x == loc[1].target
        g == Val(comments[x].parent)
        c == CHOOSE i \in Children(comments, x) : TRUE
    IN  /\ x \notin DOMAIN comments'
        /\ comments'[c].parent = Some(g)
        /\ RootOf(comments', c) = RootOf(comments, x)
        /\ comments'[Val(RootOf(comments, x))] = comments[Val(RootOf(comments, x))]
        /\ Children(comments', g) = (Children(comments, g) \ {x}) \cup {c}

\* C21 as stated: after deleting a non-root comment that has exactly one child,
\* the child's parent is the deleted comment's own parent, the thread's root is
\* unchanged, and that parent has exactly one direct child more than before.
C21_AsStated ==
    [][MiddleDeleteDone =>
          /\ MiddleDeleteMoves
          /\ Cardinality(Children(comments', Val(comments[loc[1].target].parent)))
                = Cardinality(Children(comments, Val(comments[loc[1].target].parent))) + 1]_vars

\* C21: after deleting a non-root comment that has exactly one child, the
\* child's parent is the deleted comment's own parent, the thread's root is
\* unchanged, and that parent has as many direct children as before: the
\* deleted comment left them and its child joined them.
C21_MiddleDelete ==
    [][MiddleDeleteDone =>
          /\ MiddleDeleteMoves
          /\ Cardinality(Children(comments', Val(comments[loc[1].target].parent)))
                = Cardinality(Children(comments, Val(comments[loc[1].target].parent)))]_vars

\* a reply with one reply of its own was deleted next to a sibling: the root
\* now has the moved comment and the sibling as its children
C21_Witness ==
    /\ out.cmd = "delete" /\ out.res = "ok" /\ ~out.root
    /\ out.removed = 1 /\ out.moved = 1
    /\ Cardinality(DOMAIN comments) = 3
    /\ \E r \in DOMAIN comments :
          comments[r].parent = Null /\ Cardinality(Children(comments, r)) = 2

(* ================= properties of the first navigation ================== *)
\* the commit at position 0
FirstCommit == CHOOSE r \in commits : r.position = 0

\* the last command to end was a successful start or join
JustStarted == out.cmd \in {"start", "join"} /\ out.res = "ok"

\* the reviewer of working copy w rests at position 0
AtFirst(w) == HasCursor(w) /\ reviewers[w] = Some(FirstCommit.sha)

\* the role name of the start or join process 1 is in, "" without one
RoleOf ==
    IF pc[1] \in {"start_tx", "join_insert", "start_worktree"} THEN loc[1].name
    ELSE loc[1].reviewer

TeardownRefused == Idle /\ pc'[1] = "idle" /\ out'.cmd \in {"finish", "abort"}

Elems(q) == {q[i] : i \in 1..Len(q)}

\* the commit the thread of comment i starts on
ThreadCommit(tbl, i) == tbl[Val(RootOf(tbl, i))].commit

\* process 1 passes one commit of the notes loop of finish
NoteStep == pc[1] = "fin_notes" /\ pc'[1] \in {"fin_notes", "fin_worktrees"}

\* the blocks, as pairs of commit and index, that name comment i
BlocksNaming(i) ==
    {b \in HistorySet \X (1..FinIds) : b[2] <= Len(notes[b[1]]) /\ i \in Elems(notes[b[1]][b[2]])}

BlockLayout(tbl, blk) ==
    LET IsRoot(k) == tbl[blk[k]].parent = Null
        Roots == {k \in 1..Len(blk) : IsRoot(k)}
        Above(k) == CHOOSE r \in Roots : r < k /\ \A r2 \in Roots : r2 < k => r2 <= r
    IN  /\ \A a, b \in Roots : a < b => ~(tbl[blk[a]].file # Null /\ tbl[blk[b]].file = Null)
        /\ \A a, b, c \in Roots :
              (a < b /\ b < c /\ tbl[blk[a]].file = tbl[blk[c]].file)
                 => tbl[blk[b]].file = tbl[blk[a]].file
        /\ \A k \in 1..Len(blk) : ~IsRoot(k) =>
              /\ \E r \in Roots : r < k
              /\ RootOf(tbl, blk[k]) = Some(blk[Above(k)])
              /\ (k > 1 /\ ~IsRoot(k - 1)) => StrLess(blk[k - 1], blk[k])

\* C25: in the block finish builds for one commit the general roots come
\* before the roots on a file, the roots on a file are grouped by file, and
\* each root is directly followed by all its descendants in identifier order,
\* whatever the creation order of the roots.
C25_AsStated ==
    [][(NoteStep /\ notes' # notes) =>
          LET sha == loc[1].list[loc[1].k].sha
          IN  BlockLayout(loc[1].snap, notes'[sha][Len(notes'[sha])])]_vars

\* a finish wrote a block whose first line is a root on a file and whose
\* second line is a general root made after it
C25_Witness ==
    /\ pc[1] = "fin_worktrees" /\ loc[1].cmd = "finish"
    /\ \E c \in HistorySet : \E i, j \in DOMAIN loc[1].snap :
          /\ notes[c] = << <<i, j>> >>
          /\ loc[1].snap[i].parent = Null /\ loc[1].snap[i].file # Null
          /\ loc[1].snap[j].parent = Null /\ loc[1].snap[j].file = Null

TornDown == Idle /\ out.cmd \in {"finish", "abort"} /\ out.res = "ok"

C28_AbsentRefuses ==
    [][/\ (session = {} /\ Idle) =>
             \/ /\ pc'[1] = "start_tx" /\ loc'[1].cmd = "start"
                /\ store' = store /\ wt' = wt
             \/ /\ Idle' /\ out'.cmd = "start" /\ Failed(out')
                /\ store' = store /\ wt' = wt
             \/ /\ Idle' /\ out'.cmd = "state" /\ out'.snapshot = Null
                /\ store' = store /\ wt' = wt /\ db' = db
             \/ /\ Idle'
                /\ out'.cmd \in {"next", "jump", "add", "list", "status", "delete", "resolve",
                                 "unresolve", "finish", "abort"}
                /\ out'.res = IF db THEN "err_no_review" ELSE "err_open"
                /\ Failed(out')
                /\ store' = store /\ wt' = wt /\ db' = db /\ notes' = notes
       /\ (session = {} /\ session' # {}) => pc[1] = "start_tx" /\ loc[1].cmd = "start"]_vars

\* list was refused in a repository whose store file exists but holds no
\* session, after a finish and a start that was refused
C28_Witness ==
    /\ session = {} /\ Idle /\ db
    /\ out = [cmd |-> "list", res |-> "err_no_review"]
    /\ \E c \in HistorySet : notes[c] # << >>

(* ================= properties of the state snapshot ==================== *)
\* C29: the snapshot is null exactly when there is no Session row, with or
\* without a store file; otherwise it lists the commits in position order and
\* its current is the position of the cursor of the reviewer named after the
\* working copy that asks, null when that reviewer has no row or no cursor,
\* and never the position of another reviewer.
C29_Snapshot ==
    [][(Idle /\ Idle' /\ out'.cmd = "state") =>
          /\ out'.res = "ok"
          /\ UNCHANGED <<store, wt, db, notes>>
          /\ out'.snapshot = Null <=> session = {}
          /\ out'.snapshot # Null =>
                LET s == Val(out'.snapshot)
                    w == out'.w
                IN  /\ Len(s.commits) = Cardinality(commits)
                    /\ \A k \in 1..Len(s.commits) :
                          \E r \in commits : r.sha = s.commits[k] /\ r.position = k - 1
                    /\ s.current =
                          IF w \in DOMAIN reviewers /\ reviewers[w] # Null
                          THEN {r.position : r \in {c \in commits : c.sha = Val(reviewers[w])}}
                          ELSE Null]_vars

\* the snapshot was read from the shared working copy, whose reviewer has no
\* row, while "sec" is at the second commit: current is null
C29_Witness ==
    /\ Idle /\ out.cmd = "state" /\ out.w = ""
    /\ out.snapshot # Null /\ Val(out.snapshot).current = Null
    /\ "" \notin DOMAIN reviewers
    /\ HasCursor("sec") /\ Val(reviewers["sec"]) = Val(out.snapshot).commits[2]

(* ================= properties of the filters of list =================== *)
\* the commit a --commit filter names: the first in position order whose SHA
\* begins with the text
NamedCommit(text) ==
    {r.sha : r \in {c \in commits : /\ IsPrefix(text, c.sha)
                                     /\ \A c2 \in commits :
                                           IsPrefix(text, c2.sha) => c.position <= c2.position}}

\* root r passes every filter of f that is set
RootPasses(f, r) ==
    /\ f.commit # << >> => Some(comments[r].commit) = NamedCommit(f.commit)
    /\ f.unresolved => comments[r].resolvedAt = Null
    /\ f.creator # "" => comments[r].createdBy = f.creator
    /\ f.file # "" => comments[r].file = Some(f.file)

\* C30: the filters of list are decided on roots and conjoined: with a filter
\* set, a comment is in the result exactly when the root of its thread passes
\* every filter that is set, whatever its own creator, commit, file and
\* resolution; with no filter set every comment is in the result.
C30_FilterOnRoots ==
    [][(Idle /\ Idle' /\ out'.cmd = "list" /\ out'.res = "ok") =>
          LET f == out'.filter
              hasFilter == f.commit # << >> \/ f.unresolved \/ f.creator # "" \/ f.file # ""
          IN  /\ Len(out'.filtered) = Cardinality(Elems(out'.filtered))
              /\ Elems(out'.filtered) =
                    IF hasFilter
                    THEN {i \in DOMAIN comments :
                             /\ RootOf(comments, i) # Null
                             /\ RootPasses(f, Val(RootOf(comments, i)))}
                    ELSE DOMAIN comments]_vars

\* list --creator bob --commit <sha> --file a.go --unresolved returned a root
\* and its reply, which has another creator, commit and file and is resolved
C30_Witness ==
    /\ Idle /\ out.cmd = "list" /\ out.res = "ok"
    /\ out.filter = [commit |-> History[2], unresolved |-> TRUE, creator |-> "bob",
                     file |-> "a.go"]
    /\ out.filtered = <<IdOf(0), IdOf(1)>>
    /\ comments[IdOf(1)].parent = Some(IdOf(0))
    /\ comments[IdOf(1)].createdBy = ""
    /\ comments[IdOf(1)].commit = History[1]
    /\ comments[IdOf(1)].file = Null
    /\ comments[IdOf(1)].resolvedAt # Null

(* ================= properties of thread lookup ========================= *)
\* C31: list <id> gives the same thread from any of its comments: the root of
\* the thread first, then every descendant of the root once, in ascending
\* identifier order, and no comment of another thread.
C31_ThreadLookup ==
    [][(Idle /\ Idle' /\ out'.cmd = "list" /\ "found" \in DOMAIN out') =>
          LET th == out'.filtered
              root == RootOf(comments, out'.found)
          IN  /\ root # Null
              /\ th[1] = Val(root)
              /\ Elems(th) = {i \in DOMAIN comments : RootOf(comments, i) = root}
              /\ Len(th) = Cardinality(Elems(th))
              /\ \A k \in 2..(Len(th) - 1) : StrLess(th[k], th[k + 1])
              /\ out'.shown = th
              /\ UNCHANGED <<store, wt, db, notes>>]_vars

\* the thread was looked up from a reply to a reply: root, reply, reply of the
\* reply
C31_Witness ==
    /\ Idle /\ out.cmd = "list" /\ "found" \in DOMAIN out
    /\ out.arg = IdOf(2) /\ out.found = IdOf(2)
    /\ out.filtered = <<IdOf(0), IdOf(1), IdOf(2)>>
    /\ comments[IdOf(2)].parent = Some(IdOf(1))
    /\ comments[IdOf(1)].parent = Some(IdOf(0))

(* ================= properties of line ranges =========================== *)
\* raw is "S,E" for two integers S and E
IsPair(raw) ==
    \E k \in 1..Len(raw) :
        /\ raw[k] = ","
        /\ ParseIntOk(SubSeq(raw, 1, k - 1))
        /\ ParseIntOk(SubSeq(raw, k + 1, Len(raw)))
PairStart(raw) == ParseIntVal(SubSeq(raw, 1, (CHOOSE k \in 1..Len(raw) : raw[k] = ",") - 1))
PairEnd(raw) == ParseIntVal(SubSeq(raw, (CHOOSE k \in 1..Len(raw) : raw[k] = ",") + 1, Len(raw)))

\* the lines a top-level add with -l raw must store, Null when it must be
\* rejected
LinesOf(raw) ==
    IF raw = << >> THEN Some([start |-> Null, end |-> Null])
    ELSE IF ParseIntOk(raw)
         THEN Some([start |-> Some(ParseIntVal(raw)), end |-> Some(ParseIntVal(raw))])
         ELSE IF IsPair(raw) /\ PairStart(raw) <= PairEnd(raw)
              THEN Some([start |-> Some(PairStart(raw)), end |-> Some(PairEnd(raw))])
              ELSE Null

\* C32: the -l argument "" gives no lines, "N" gives start = end = N, "S,E"
\* with S <= E gives start = S and end = E; "S,E" with S > E and a text that is
\* no integer are rejected and the add stores nothing; so every stored
\* comment that has lines has start <= end.
C32_LineRange ==
    /\ [](\A i \in DOMAIN comments :
             /\ comments[i].startLine = Null <=> comments[i].endLine = Null
             /\ comments[i].startLine # Null =>
                   Val(comments[i].startLine) <= Val(comments[i].endLine))
    /\ [][/\ (Idle /\ pc'[1] = "add_insert" /\ loc'[1].replyTo = << >>) =>
                /\ LinesOf(loc'[1].range) # Null
                /\ loc'[1].row.startLine = Val(LinesOf(loc'[1].range)).start
                /\ loc'[1].row.endLine = Val(LinesOf(loc'[1].range)).end
          /\ (pc[1] = "add_insert" /\ comments' # comments) =>
                comments' = InsertComment(comments, loc[1].id, loc[1].row)
          /\ (Idle /\ Idle' /\ out'.cmd = "add" /\ out'.res = "err_line_range") =>
                /\ LinesOf(out'.range) = Null
                /\ comments' = comments
          /\ (Idle /\ Idle' /\ out'.cmd = "add" /\ requireActive /\ HasCursor("")
                /\ "range" \in DOMAIN out') =>
                out'.res = "err_line_range"]_vars

\* add -l "2,1" was rejected after a comment on lines 1 to 2 was stored
C32_Witness ==
    /\ Idle /\ out.cmd = "add" /\ out.res = "err_line_range" /\ out.range = <<"2", ",", "1">>
    /\ \E i \in DOMAIN comments :
          comments[i].startLine = Some(1) /\ comments[i].endLine = Some(2)

(* ================= properties of a failing start or join =============== *)
\* the steps of start and join after the session check
StartPcs == {"start_tx", "join_insert", "start_worktree", "jump_checkout", "jump_readtree",
             "jump_update"}

\* the reviewer a start or a join at l is for
StartName(l) == IF "reviewer" \in DOMAIN l THEN l.reviewer ELSE l.name

\* C33: a start or join that fails at any step (bootstrap, provisioning of the
\* working copy, first navigation) leaves the Session, Commit and Reviewer
\* rows as before the call: a failed start leaves no session, a failed join
\* no reviewer row for the new name.
C33_AsStated ==
    [][(pc[1] \in StartPcs /\ loc[1].cmd \in {"start", "join"} /\ Idle' /\ Failed(out')) =>
          IF loc[1].cmd = "start"
          THEN session' = {} /\ commits' = {} /\ DOMAIN reviewers' = {}
          ELSE pc[1] # "join_insert" => StartName(loc[1]) \notin DOMAIN reviewers']_vars

\* a start -a sec whose git worktree add failed: the session, its commits and
\* the reviewer sec are stored, sec has no cursor and no working copy
C33_Witness ==
    /\ Idle /\ out = [cmd |-> "start", res |-> "err_git"]
    /\ session # {} /\ commits # {} /\ DOMAIN reviewers = {"sec"}
    /\ reviewers["sec"] = Null /\ "sec" \notin DOMAIN wt

(* ================= properties of two starts at once ==================== *)
\* C34: when several start invocations pass the session check while no
\* session exists, at most one session row ever exists, the commit list and
\* the first reviewer stored are those of one invocation, never a mixture,
\* and the other invocations fail.
C34_OneBootstrap ==
    /\ [](Cardinality(session) <= 1)
    /\ [](\A s \in session : commits = CommitRows(RevList(s.base_ref)))
    /\ [](session = {} => commits = {} /\ DOMAIN reviewers = {})
    /\ [][\A p \in Procs : (pc[p] = "start_tx" /\ pc'[p] # "start_tx") =>
             IF session = {}
             THEN /\ session' = {[base_ref |-> loc[p].base, branch |-> BranchRef]}
                  /\ commits' = CommitRows(loc[p].shas)
                  /\ DOMAIN reviewers' = {loc[p].reviewer}
                  /\ pc'[p] # "idle"
             ELSE /\ pc'[p] = "idle" /\ out' = [cmd |-> "start", res |-> "err_init"]
                  /\ store' = store]_vars

\* two invocations passed the session check; the bootstrap of process 2 is
\* stored, process 1 is yet to run its own for another base and reviewer
C34_Witness ==
    /\ pc[1] = "start_tx" /\ pc[2] = "jump_checkout" /\ loc[2].cmd = "start"
    /\ session = {[base_ref |-> MainSha, branch |-> BranchRef]}
    /\ loc[1].base = History[1] /\ loc[1].reviewer = "sec"
    /\ DOMAIN reviewers = {""}

(* ================= properties of references to commits ================= *)
\* the SHAs of the session's commit list
ListShas == {r.sha : r \in commits}

\* C35: in every state of an active session every comment's commit and every
\* reviewer's non-null cursor is the SHA of a commit of the session's commit
\* list; no add, reply, navigation or delete stores a reference to a commit
\* outside the list.
C35_CommitReferences ==
    /\ [](requireActive =>
             /\ \A i \in DOMAIN comments : comments[i].commit \in ListShas
             /\ \A n \in DOMAIN reviewers : reviewers[n] # Null => Val(reviewers[n]) \in ListShas)
    /\ [][/\ requireActive => commits' = commits
          /\ \A p \in Procs : pc'[p] = "add_insert" => loc'[p].row.commit \in ListShas
          /\ \A p \in Procs : pc'[p] \in {"jump_readtree", "jump_update"} =>
                Val(loc'[p].target).sha \in ListShas]_vars

\* two reviewers at different commits, a comment on each commit, one of them a
\* reply that stayed on its parent's commit
C35_Witness ==
    /\ Idle /\ pc[2] = "idle"
    /\ HasCursor("") /\ HasCursor("sec") /\ reviewers[""] # reviewers["sec"]
    /\ \E i, j \in DOMAIN comments :
          /\ comments[i].commit = History[2] /\ comments[j].commit = History[3]

(* ================= properties of what a reply inherits ================= *)
\* comment i of tbl is attached where its parent is
SameAnchor(tbl, i) ==
    LET par == tbl[Val(tbl[i].parent)]
    IN  /\ tbl[i].commit = par.commit /\ tbl[i].file = par.file
        /\ tbl[i].startLine = par.startLine /\ tbl[i].endLine = par.endLine

\* C36: in every state every reply has the commit, file and line range of its
\* parent, so all comments of a thread are on the commit of the thread's root,
\* after any replies from any cursor and any deletes with re-parenting; the
\* block finish writes for a commit names no reply of another commit, so no
\* reply line carries a cross-commit tag.
C36_ReplyInherits ==
    /\ [](\A i \in DOMAIN comments : comments[i].parent # Null =>
             /\ Val(comments[i].parent) \in DOMAIN comments
             /\ SameAnchor(comments, i)
             /\ comments[i].commit = ThreadCommit(comments, i))
    /\ [][NoteStep =>
            \A c \in HistorySet : \A b \in (Len(notes[c]) + 1)..Len(notes'[c]) :
               \A i \in Elems(notes'[c][b]) : loc[1].snap[i].commit = c]_vars

\* a reply made from the second commit to a reply of a root on a.go:7 of the
\* first commit, left under the root by the delete of the reply between them
C36_Witness ==
    /\ Idle /\ out.cmd = "delete" /\ out.res = "ok" /\ out.moved = 1
    /\ reviewers[""] = Some(History[3])
    /\ DOMAIN comments = {IdOf(0), IdOf(2)}
    /\ comments[IdOf(2)].parent = Some(IdOf(0))
    /\ comments[IdOf(0)].commit = History[2] /\ comments[IdOf(2)].commit = History[2]
    /\ comments[IdOf(2)].file = Some("a.go") /\ comments[IdOf(2)].startLine = Some(7)

(* ================= properties of cursor and working copy =============== *)
\* some process is inside a navigation on working copy w
NavigationOn(w) ==
    \E p \in Procs :
        /\ pc[p] \in {"start_worktree", "jump_checkout", "jump_readtree", "jump_update"}
        /\ loc[p].w = w \/ StartName(loc[p]) = w

\* working copy w exposes the change of the commit its reviewer's cursor names
ExposesCursor(w) ==
    /\ wt[w].head = PointBefore(PositionOf(reviewers[w]))
    /\ wt[w].index = Val(reviewers[w])

\* C37: whenever no navigation is in progress on a working copy, the cursor of
\* its reviewer is null or names the commit whose change the working copy
\* exposes (checked-out point = the commit's parent point, index = the commit's
\* tree), also after a navigation that failed after its checkout and after
\* two overlapping navigations on the same working copy.
C37_AsStated ==
    \A w \in DOMAIN wt : (~NavigationOn(w) /\ HasCursor(w)) => ExposesCursor(w)

\* two navigations of the one reviewer overlapped and both reported success:
\* the cursor names one commit, the working copy exposes another
C37_Witness ==
    /\ \A p \in Procs : pc[p] = "idle"
    /\ out.res = "ok" /\ DOMAIN reviewers = {""}
    /\ HasCursor("") /\ wt[""].index # Val(reviewers[""])
    /\ wt[""].index \in {r.sha : r \in commits}

(* ================= properties of two resolves at once ================== *)
\* C38: when two resolve calls on the same unresolved root overlap, exactly one
\* reports success and the other is rejected as already resolved, and the
\* stored resolved-by and resolved-at are those of the call that reported
\* success.
C38_AsStated ==
    [][\A p \in Procs : (pc[p] = "resolve_update" /\ pc'[p] = "idle") =>
          LET t == loc[p].target
          IN  IF comments[t].resolvedAt # Null
              THEN Failed(out') /\ comments' = comments
              ELSE /\ out' = [cmd |-> "resolve", res |-> "ok"]
                   /\ comments'[t].resolvedBy = Some(loc[p].by)
                   /\ comments'[t].resolvedAt = Some(loc[p].at)]_vars

\* the resolve of bob reported success and is stored, while the resolve of ann,
\* which found the root unresolved before bob wrote, is about to write
C38_Witness ==
    /\ pc[2] = "idle" /\ out = [cmd |-> "resolve", res |-> "ok"]
    /\ pc[1] = "resolve_update" /\ loc[1].target = IdOf(0)
    /\ loc[1].by = "ann" /\ loc[1].at = "t2"
    /\ comments[IdOf(0)].resolvedBy = Some("bob") /\ comments[IdOf(0)].resolvedAt = Some("t1")

(* ================= properties of a reply racing a delete =============== *)
\* process p stores a reply while process q is inside a delete of its parent
ReplyStoredDuring(p, q) ==
    /\ AddDone(p) /\ loc[p].row.parent # Null
    /\ pc[q] \in TxPcs /\ loc[q].target = Val(loc[p].row.parent)

\* a reply is stored under a stored parent or rejected and not stored; a
\* delete that commits re-parents every stored reply to its target when the
\* target is a reply, and removes the whole thread when it is a root
ReplyAndDeleteSteps ==
    \A p \in Procs :
        /\ (pc[p] = "add_insert" /\ pc'[p] = "idle" /\ loc[p].row.parent # Null) =>
              IF out'.res = "ok"
              THEN /\ Val(loc[p].row.parent) \in DOMAIN comments
                   /\ comments' = InsertComment(comments, loc[p].id, loc[p].row)
              ELSE Failed(out') /\ comments' = comments
        /\ DeleteDone(p) =>
              LET X == loc[p].target
              IN  /\ X \in DOMAIN comments
                  /\ IF comments[X].parent # Null
                     THEN \A i \in DOMAIN comments : comments[i].parent = Some(X) =>
                             /\ i \in DOMAIN comments'
                             /\ comments'[i].parent = comments[X].parent
                     ELSE \A i \in DOMAIN comments :
                             RootOf(comments, i) = Some(X) => i \notin DOMAIN comments'

\* C39 as stated: when a reply to X overlaps a delete of X, the reply is stored
\* and then re-parented (X a reply) or removed with the thread (X a root) by
\* that delete, or it is rejected and not stored; a stored reply never lacks
\* its parent and a delete never removes a reply it should have re-parented.
C39_AsStated ==
    /\ []NoDangling(comments)
    /\ [][/\ ReplyAndDeleteSteps
          /\ \A p, q \in Procs : ReplyStoredDuring(p, q) => TxCanWrite(q)']_vars

\* C39, amended: as above, but a reply stored while the delete of X has read
\* and not yet written makes that delete fail; the delete then changes
\* nothing, X and the reply stay stored, the reply under X.
C39_ReplyVersusDelete ==
    /\ []NoDangling(comments)
    /\ [][/\ ReplyAndDeleteSteps
          /\ \A p, q \in Procs : ReplyStoredDuring(p, q) =>
                /\ ~loc[q].wrote /\ loc'[q].stale
                /\ loc[q].target \in DOMAIN comments'
                /\ comments'[loc[p].id].parent = Some(loc[q].target)
          /\ \A q \in Procs : (pc[q] \in TxPcs /\ loc[q].stale /\ pc'[q] # pc[q]) =>
                /\ pc'[q] = "idle" /\ out'.cmd = "delete" /\ Failed(out')
                /\ comments' = comments]_vars

\* a reply to a reply was stored while process 2 was inside the delete of that
\* reply, before its first write
C39_Witness ==
    /\ pc[1] = "idle" /\ out = [cmd |-> "add", res |-> "ok"]
    /\ pc[2] = "del_reparent" /\ loc[2].stale
    /\ loc[2].target \in DOMAIN comments
    /\ IdOf(nextId - 1) \in DOMAIN comments
    /\ comments[IdOf(nextId - 1)].parent = Some(loc[2].target)
    /\ nextId = RaceIds

(* ================= properties of repeated next ========================= *)
\* the position of reviewer n's cursor in tbl; -1 without a cursor
CursorPos(tbl, n) == IF tbl[n] = Null THEN -1 ELSE PositionOf(tbl[n])

====
